---- MODULE Spec2Model ----
(***************************************************************************)
(* Model of the component version / rollback engine of rust-reaction       *)
(* (Morpheus): the VersionHistory container of the morpheus-complete and   *)
(* safety-demo servers, the generate_component request handler that gates  *)
(* add_version behind a successful compile, the handlers of the            *)
(* safety-demo server, VersionedState<T> of morpheus-core, WasmComponent   *)
(* and ComponentRegistry of morpheus-runtime, and SubprocessCompiler of    *)
(* morpheus-compiler.                                                      *)
(* Nine specifications share the variables: SpecVH, SpecVS, SpecWC and     *)
(* SpecCR call the methods of one VersionHistory / VersionedState /        *)
(* WasmComponent / ComponentRegistry in any order, SpecVU does so for      *)
(* VersionedState without restore, SpecUD runs updates followed by         *)
(* rollbacks, SpecSC steps through SubprocessCompiler::compile, Spec is    *)
(* the morpheus-complete server, SpecSD the safety-demo server.            *)
(*                                                                         *)
(* Rust values are rendered as follows.                                    *)
(*   Option<T>      None is <<>>, Some(v) is <<v>>                         *)
(*   Vec<T>         a sequence; Rust index i is TLA+ index i + 1           *)
(*   String         a sequence of Unicode code points where the byte       *)
(*                  layout matters (the text truncate cuts, names), an     *)
(*                  opaque TLA+ string otherwise                           *)
(*   struct         a record with the field names of the source           *)
(*   u64            four 16-bit limbs where wrap-around matters            *)
(*   HashMap<K, V>  a function on the set of keys                          *)
(*   iterator       the bag of the items it yields, where the order is     *)
(*                  not specified                                          *)
(* A method fn m(&mut self, ..) -> R is an operator m(self, ..) yielding   *)
(* [self |-> the object after the call, ret |-> the returned value]; a     *)
(* method returning () yields the object after the call.                   *)
(***************************************************************************)
EXTENDS Integers, Sequences, FiniteSets, Bags, TLC

VARIABLES
    versions,       \* AppState.versions: the VersionHistory behind the mutex
    conversation,   \* AppState.conversation: Vec<Message> behind the mutex
    api_key,        \* AppState.api_key
    pc,             \* per generate request: the await point it is suspended at
    req,            \* per generate request: GenerateRequest.prompt
    iteration,      \* per generate request: local `iteration`
    messages,       \* per generate request: call_claude_api's local `messages`
    rust_code,      \* per generate request: local `rust_code`
    compiled,       \* per generate request: what compile returned, Ok(wasm_bytes)
                    \* or Err(error_msg)
    resp,           \* per generate request: the GenerateResponse returned
    ret,            \* the last call made on the history and what it returned
    last_rollback,  \* history variable: the last successful rollback_to not
                    \* yet followed by update_state or add_version, as its
                    \* target id and the entry count when it was called
    last_change,    \* history variable: the most recent call that changed
                    \* the VersionHistory and what it found there
    vs,             \* a VersionedState<T> of morpheus-core
    vcalls,         \* history variable: the value vs was created with and
                    \* the numbers of update calls and of other calls made
                    \* on it since
    component,      \* the WasmComponent a caller of morpheus-runtime holds,
                    \* an Option (None before load and after it was moved)
    clog,           \* history variable: the id and grant component had when
                    \* load returned it and the reload calls made on it since
    registry,       \* a ComponentRegistry of morpheus-runtime
    build,          \* one caller of SubprocessCompiler::compile: the point
                    \* the call has reached, what the environment answered
                    \* so far, the result returned and the bytes the caller
                    \* has passed on
    calls           \* history variable: per generate_component request, the
                    \* calls of the AI and of the compiler it has made, the
                    \* compiles that failed, whether one succeeded, and the
                    \* cached state there was when the request arrived

vars == <<versions, conversation, api_key, pc, req, iteration, messages,
          rust_code, compiled, resp, ret, last_rollback, last_change, vs,
          vcalls, component, clog, registry, build, calls>>

\* the variables of the morpheus-runtime and morpheus-compiler harnesses
rt_vars == <<component, clog, registry, build>>

\* the variables of the VersionedState harness and of the safety-demo
\* server, which the VersionHistory harness and the morpheus-complete
\* server never touch
aside_vars == <<last_change, vs, vcalls, rt_vars>>

gen_vars == <<conversation, api_key, pc, req, iteration, messages,
              rust_code, compiled, resp, calls>>

-----------------------------------------------------------------------------
(* Bounds and input sets *)

\* most entries the method-level specification lets a history grow to
MaxVersions == 3

\* concurrent generate_component requests of the server specification
NumReq == 2

Req == 1..NumReq

\* serde_json::Value payloads reported as live state (e.g. {"count": 5})
StateValues == {5, 42}

\* an artifact: the minimal module of compile_demo_component
WasmDemo == <<0, 97, 115, 109, 1, 0, 0, 0>>

\* live states the server is told of
ServerStates == {42}

\* Utc::now() readings, in seconds after the epoch
Times == {0}

\* source texts the AI may answer with
Codes == {"code_a"}

\* compiler diagnostics (CompilationError::to_string)
CompileErrors == {"error[E0308]"}

\* how call_claude_api fails (a transport error, a non-2xx status and an
\* empty content all leave it through the same Err)
ApiErrors == {"Claude API returned 529"}

ApiKeys == {"", "sk-key"}

-----------------------------------------------------------------------------
(* Option and Vec *)

None == <<>>

Some(v) == <<v>>

is_some(o) == Len(o) > 0

\* Vec::get / slice::get
vec_get(v, i) == IF i < Len(v) THEN Some(v[i + 1]) ELSE None

-----------------------------------------------------------------------------
(* Strings with a byte layout *)

Rep(c, n) == [i \in 1..n |-> c]

\* char::len_utf8
len_utf8(c) == IF c < 128 THEN 1 ELSE IF c < 2048 THEN 2 ELSE IF c < 65536 THEN 3 ELSE 4

\* str::len: the length in bytes
RECURSIVE str_len(_)
str_len(s) == IF Len(s) = 0 THEN 0 ELSE len_utf8(Head(s)) + str_len(Tail(s))

\* str::is_char_boundary: index is 0, or the end of one of the chars of s
RECURSIVE is_char_boundary(_, _)
is_char_boundary(s, index) ==
    IF index = 0 THEN TRUE
    ELSE IF Len(s) = 0 \/ len_utf8(Head(s)) > index THEN FALSE
    ELSE is_char_boundary(Tail(s), index - len_utf8(Head(s)))

\* &s[..max] for max on a char boundary of s
RECURSIVE str_prefix(_, _)
str_prefix(s, max) ==
    IF max = 0 THEN <<>>
    ELSE <<Head(s)>> \o str_prefix(Tail(s), max - len_utf8(Head(s)))

\* "..."
Ellipsis == <<46, 46, 46>>

\* "AI Generated: "
AiGeneratedPrefix == <<65, 73, 32, 71, 101, 110, 101, 114, 97, 116, 101, 100, 58, 32>>

\* truncate(s, max); slicing off a char boundary panics
truncate(s, max) ==
    IF str_len(s) <= max
    THEN [panic |-> FALSE, val |-> s]
    ELSE IF is_char_boundary(s, max)
         THEN [panic |-> FALSE, val |-> str_prefix(s, max) \o Ellipsis]
         ELSE [panic |-> TRUE]

\* prompts, by key: short, longer than 40 bytes in ASCII, and longer than
\* 40 bytes with a two-byte char lying across byte 40.  The state carries a
\* prompt by its key; truncate reads its text.
Prompts == {"short", "long", "split"}

PromptText(p) ==
    CASE p = "short" -> <<99, 116, 114>>
      [] p = "long" -> Rep(97, 41)
      [] p = "split" -> Rep(97, 39) \o <<233, 97>>

-----------------------------------------------------------------------------
(* base64_encode: the standard alphabet with padding *)

B64 ==
    << "A", "B", "C", "D", "E", "F", "G", "H", "I", "J", "K", "L", "M",
       "N", "O", "P", "Q", "R", "S", "T", "U", "V", "W", "X", "Y", "Z",
       "a", "b", "c", "d", "e", "f", "g", "h", "i", "j", "k", "l", "m",
       "n", "o", "p", "q", "r", "s", "t", "u", "v", "w", "x", "y", "z",
       "0", "1", "2", "3", "4", "5", "6", "7", "8", "9", "+", "/" >>

RECURSIVE base64_encode(_)
base64_encode(bytes) ==
    IF Len(bytes) = 0 THEN <<>>
    ELSE IF Len(bytes) = 1 THEN
        << B64[(bytes[1] \div 4) + 1],
           B64[((bytes[1] % 4) * 16) + 1], "=", "=" >>
    ELSE IF Len(bytes) = 2 THEN
        << B64[(bytes[1] \div 4) + 1],
           B64[((bytes[1] % 4) * 16) + (bytes[2] \div 16) + 1],
           B64[((bytes[2] % 16) * 4) + 1], "=" >>
    ELSE
        << B64[(bytes[1] \div 4) + 1],
           B64[((bytes[1] % 4) * 16) + (bytes[2] \div 16) + 1],
           B64[((bytes[2] % 16) * 4) + (bytes[3] \div 64) + 1],
           B64[(bytes[3] % 64) + 1] >>
        \o base64_encode(SubSeq(bytes, 4, Len(bytes)))

\* DateTime<Utc>::to_rfc3339 for readings within the first minute of the epoch
to_rfc3339(t) ==
    << "1970-01-01T00:00:", B64[53 + (t \div 10)], B64[53 + (t % 10)], "+00:00" >>

-----------------------------------------------------------------------------
(* VersionHistory *)

\* VersionHistory::new
VersionHistory_new ==
    [versions |-> <<>>, current_index |-> 0, current_state |-> None]

\* add_version that forgets to capture the cached state
add_version_no_snapshot(self, name, description, code, bytes, ai_generated, now) ==
    LET id == Len(self.versions)
        version == [id |-> id, name |-> name, description |-> description,
                    rust_code |-> code, wasm_base64 |-> base64_encode(bytes),
                    created_at |-> now, state_snapshot |-> None,
                    ai_generated |-> ai_generated]
    IN [self |-> [self EXCEPT !.versions = Append(@, version),
                              !.current_index = id],
        ret |-> id]

\* add_version that numbers the entry after the current one, not after the last
add_version_id_after_current(self, name, description, code, bytes, ai_generated, now) ==
    LET id == IF Len(self.versions) = 0 THEN 0 ELSE self.current_index + 1
        version == [id |-> id, name |-> name, description |-> description,
                    rust_code |-> code, wasm_base64 |-> base64_encode(bytes),
                    created_at |-> now, state_snapshot |-> self.current_state,
                    ai_generated |-> ai_generated]
    IN [self |-> [self EXCEPT !.versions = Append(@, version),
                              !.current_index = id],
        ret |-> id]

\* add_version that sets the index to the length after the push
add_version_index_past_end(self, name, description, code, bytes, ai_generated, now) ==
    LET id == Len(self.versions)
        version == [id |-> id, name |-> name, description |-> description,
                    rust_code |-> code, wasm_base64 |-> base64_encode(bytes),
                    created_at |-> now, state_snapshot |-> self.current_state,
                    ai_generated |-> ai_generated]
    IN [self |-> [self EXCEPT !.versions = Append(@, version),
                              !.current_index = id + 1],
        ret |-> id]

\* VersionHistory::add_version; now is the reading of Utc::now()
add_version(self, name, description, code, bytes, ai_generated, now) ==
    LET id == Len(self.versions)
        version == [id |-> id,
                    name |-> name,
                    description |-> description,
                    rust_code |-> code,
                    wasm_base64 |-> base64_encode(bytes),
                    created_at |-> now,
                    state_snapshot |-> self.current_state,
                    ai_generated |-> ai_generated]
    IN [self |-> [self EXCEPT !.versions = Append(@, version),
                              !.current_index = id],
        ret |-> id]

\* VersionHistory::get_current
get_current(self) == vec_get(self.versions, self.current_index)

\* rollback_to that moves the index and keeps the cached state
rollback_to_keeps_state(self, version_id) ==
    IF version_id < Len(self.versions)
    THEN LET s1 == [self EXCEPT !.current_index = version_id]
         IN [self |-> s1, ret |-> get_current(s1)]
    ELSE [self |-> self, ret |-> None]

\* rollback_to whose bound check is off by one (<= for <)
rollback_to_inclusive(self, version_id) ==
    IF version_id <= Len(self.versions)
    THEN LET s1 == [self EXCEPT !.current_index = version_id]
             got == vec_get(s1.versions, version_id)
             s2 == IF is_some(got)
                   THEN [s1 EXCEPT !.current_state = got[1].state_snapshot]
                   ELSE s1
         IN [self |-> s2, ret |-> get_current(s2)]
    ELSE [self |-> self, ret |-> None]

\* rollback_to that drops the entries after the target, as an undo stack would
rollback_to_truncating(self, version_id) ==
    IF version_id < Len(self.versions)
    THEN LET s1 == [self EXCEPT !.current_index = version_id,
                                !.versions = SubSeq(@, 1, version_id + 1)]
             got == vec_get(s1.versions, version_id)
             s2 == IF is_some(got)
                   THEN [s1 EXCEPT !.current_state = got[1].state_snapshot]
                   ELSE s1
         IN [self |-> s2, ret |-> get_current(s2)]
    ELSE [self |-> self, ret |-> None]

\* rollback_to that only goes back from the current entry
rollback_to_backward_only(self, version_id) ==
    IF version_id < Len(self.versions) /\ version_id <= self.current_index
    THEN LET s1 == [self EXCEPT !.current_index = version_id]
             got == vec_get(s1.versions, version_id)
             s2 == IF is_some(got)
                   THEN [s1 EXCEPT !.current_state = got[1].state_snapshot]
                   ELSE s1
         IN [self |-> s2, ret |-> get_current(s2)]
    ELSE [self |-> self, ret |-> None]

\* VersionHistory::rollback_to
rollback_to(self, version_id) ==
    IF version_id < Len(self.versions)
    THEN LET s1 == [self EXCEPT !.current_index = version_id]
             got == vec_get(s1.versions, version_id)
             s2 == IF is_some(got)
                   THEN [s1 EXCEPT !.current_state = got[1].state_snapshot]
                   ELSE s1
         IN [self |-> s2, ret |-> get_current(s2)]
    ELSE [self |-> self, ret |-> None]

\* update_state that also rewrites the snapshot of the current entry
update_state_into_entry(self, state) ==
    [self EXCEPT !.current_state = Some(state),
                 !.versions = [i \in 1..Len(@) |->
                                  IF i = self.current_index + 1
                                  THEN [@[i] EXCEPT !.state_snapshot = Some(state)]
                                  ELSE @[i]]]

\* VersionHistory::update_state
update_state(self, state) == [self EXCEPT !.current_state = Some(state)]

\* get_history that lists the newest entry first
get_history_newest_first(self) ==
    [i \in 1..Len(self.versions) |->
        LET v == self.versions[Len(self.versions) + 1 - i]
        IN [id |-> v.id,
            name |-> v.name,
            description |-> v.description,
            created_at |-> to_rfc3339(v.created_at),
            is_current |-> (v.id = self.current_index),
            ai_generated |-> v.ai_generated]]

\* VersionHistory::get_history
get_history(self) ==
    [i \in 1..Len(self.versions) |->
        LET v == self.versions[i]
        IN [id |-> v.id,
            name |-> v.name,
            description |-> v.description,
            created_at |-> to_rfc3339(v.created_at),
            is_current |-> (v.id = self.current_index),
            ai_generated |-> v.ai_generated]]

-----------------------------------------------------------------------------
(* VersionedState<T> of morpheus-core.  history is the VecDeque, oldest    *)
(* snapshot first.  version is a u64; the runs below keep it under         *)
(* MaxUpdates (and the versions of the snapshots handed to restore are     *)
(* small), far from 2^64, so the addition in update is the plain one.      *)

\* const MAX_HISTORY
MAX_HISTORY == 50

\* the placeholder chrono: Utc::now().to_rfc3339()
Utc_now_to_rfc3339 == "2025-01-01T00:00:00Z"

Snapshot(state, version, timestamp) ==
    [state |-> state, version |-> version, timestamp |-> timestamp]

\* VersionedState::new
VersionedState_new(initial) ==
    [current |-> initial, version |-> 0, history |-> <<>>]

\* VersionedState::snapshot
snapshot(self) == Snapshot(self.current, self.version, Utc_now_to_rfc3339)

\* VecDeque::pop_front, for its effect on the queue
pop_front(q) == IF Len(q) = 0 THEN q ELSE Tail(q)

\* update that takes the snapshot after the assignment
update_snapshot_after(self, new_state) ==
    LET after == [self EXCEPT !.current = new_state]
        pushed == Append(self.history, snapshot(after))
        limited == IF Len(pushed) > MAX_HISTORY THEN pop_front(pushed) ELSE pushed
    IN [current |-> new_state, version |-> self.version + 1, history |-> limited]

\* update that makes room by dropping the snapshot it just pushed
update_evicts_newest(self, new_state) ==
    LET pushed == Append(self.history, snapshot(self))
        limited == IF Len(pushed) > MAX_HISTORY
                   THEN SubSeq(pushed, 1, Len(pushed) - 1) ELSE pushed
    IN [current |-> new_state, version |-> self.version + 1, history |-> limited]

\* update that evicts as soon as the history reaches MAX_HISTORY
update_limit_off_by_one(self, new_state) ==
    LET pushed == Append(self.history, snapshot(self))
        limited == IF Len(pushed) >= MAX_HISTORY THEN pop_front(pushed) ELSE pushed
    IN [current |-> new_state, version |-> self.version + 1, history |-> limited]

\* update that numbers the version after the length of the history
update_version_from_history(self, new_state) ==
    LET pushed == Append(self.history, snapshot(self))
        limited == IF Len(pushed) > MAX_HISTORY THEN pop_front(pushed) ELSE pushed
    IN [current |-> new_state, version |-> Len(limited), history |-> limited]

\* VersionedState::update
update(self, new_state) ==
    LET pushed == Append(self.history, snapshot(self))
        limited == IF Len(pushed) > MAX_HISTORY THEN pop_front(pushed) ELSE pushed
    IN [current |-> new_state, version |-> self.version + 1, history |-> limited]

\* rollback that restores the value and keeps the version
rollback_keeps_version(self) ==
    IF Len(self.history) > 0
    THEN LET n == Len(self.history)
             popped == self.history[n]
         IN [self |-> [current |-> popped.state, version |-> self.version,
                       history |-> SubSeq(self.history, 1, n - 1)],
             ret |-> TRUE]
    ELSE [self |-> self, ret |-> FALSE]

\* rollback that falls back to version 0 when there is nothing to pop
rollback_empty_resets(self) ==
    IF Len(self.history) > 0
    THEN LET n == Len(self.history)
             popped == self.history[n]
         IN [self |-> [current |-> popped.state, version |-> popped.version,
                       history |-> SubSeq(self.history, 1, n - 1)],
             ret |-> TRUE]
    ELSE [self |-> [self EXCEPT !.version = 0], ret |-> FALSE]

\* rollback that takes the oldest snapshot
rollback_pops_oldest(self) ==
    IF Len(self.history) > 0
    THEN LET popped == self.history[1]
         IN [self |-> [current |-> popped.state, version |-> popped.version,
                       history |-> Tail(self.history)],
             ret |-> TRUE]
    ELSE [self |-> self, ret |-> FALSE]

\* VersionedState::rollback
rollback(self) ==
    IF Len(self.history) > 0
    THEN LET n == Len(self.history)
             popped == self.history[n]
         IN [self |-> [current |-> popped.state, version |-> popped.version,
                       history |-> SubSeq(self.history, 1, n - 1)],
             ret |-> TRUE]
    ELSE [self |-> self, ret |-> FALSE]

\* restore that first saves the value it replaces
restore_saving_current(self, snap) ==
    [current |-> snap.state, version |-> snap.version,
     history |-> Append(self.history, snapshot(self))]

\* VersionedState::restore
restore(self, snap) ==
    [self EXCEPT !.current = snap.state, !.version = snap.version]

\* clear_history that starts the numbering over
clear_history_resets_version(self) ==
    [self EXCEPT !.history = <<>>, !.version = 0]

\* clear_history that keeps the oldest snapshot
clear_history_keeps_oldest(self) ==
    [self EXCEPT !.history = IF Len(@) > 0 THEN <<@[1]>> ELSE <<>>]

\* VersionedState::clear_history
clear_history(self) == [self EXCEPT !.history = <<>>]

-----------------------------------------------------------------------------
(* morpheus-runtime: WasmComponent and ComponentRegistry.                  *)
(* A u64 is four 16-bit limbs, least significant first, so that the        *)
(* wrapping arithmetic of simple_hash keeps its width.  A HashMap is a     *)
(* function on the set of its keys.  An enum value is a record with a tag. *)

U16 == 65536

\* the u64 of a number below 2^31
u64(n) == <<n % U16, (n \div U16) % U16, 0, 0>>

\* u64::wrapping_mul by a number below 2^15
wrapping_mul(h, m) ==
    LET t0 == h[1] * m
        t1 == h[2] * m + (t0 \div U16)
        t2 == h[3] * m + (t1 \div U16)
        t3 == h[4] * m + (t2 \div U16)
    IN <<t0 % U16, t1 % U16, t2 % U16, t3 % U16>>

\* u64::wrapping_add of a number below 2^16
wrapping_add(h, b) ==
    LET t0 == h[1] + b
        t1 == h[2] + (t0 \div U16)
        t2 == h[3] + (t1 \div U16)
        t3 == h[4] + (t2 \div U16)
    IN <<t0 % U16, t1 % U16, t2 % U16, t3 % U16>>

\* the values of type u64
U64Values == [1..4 -> 0..(U16 - 1)]

\* simple_hash, were it to run over every byte
simple_hash_all_bytes(bytes) ==
    LET loop[hash \in U64Values, i \in 1..(Len(bytes) + 1)] ==
            IF i > Len(bytes)
            THEN hash
            ELSE loop[wrapping_add(wrapping_mul(hash, 31), bytes[i]), i + 1]
    IN loop[u64(0), 1]

\* simple_hash: the loop over bytes.iter().take(64), as a function of the
\* value hash has and of the position i of the next byte
simple_hash(bytes) ==
    LET loop[hash \in U64Values, i \in 1..65] ==
            IF i > Len(bytes) \/ i > 64
            THEN hash
            ELSE loop[wrapping_add(wrapping_mul(hash, 31), bytes[i]), i + 1]
    IN loop[u64(0), 1]

HexDigits ==
    <<"0", "1", "2", "3", "4", "5", "6", "7",
      "8", "9", "a", "b", "c", "d", "e", "f">>

\* the four hex digits of a limb
hex4(l) ==
    <<HexDigits[(l \div 4096) + 1], HexDigits[((l \div 256) % 16) + 1],
      HexDigits[((l \div 16) % 16) + 1], HexDigits[(l % 16) + 1]>>

\* format!("{:016x}", id.0)
hex016(id) == hex4(id[4]) \o hex4(id[3]) \o hex4(id[2]) \o hex4(id[1])

\* get_timestamp, given what SystemTime::now().duration_since(UNIX_EPOCH) is
get_timestamp(since_epoch) ==
    IF since_epoch.ok
    THEN <<"timestamp-", since_epoch.val>>
    ELSE <<"unknown">>

\* impl Default for Permissions
Permissions_default ==
    [network |-> [tag |-> "Denied"], storage |-> [tag |-> "None"], apis |-> {}]

\* load, were it to reject an artifact without bytes
load_rejects_empty(wasm_bytes, permissions, since_epoch) ==
    IF wasm_bytes = <<>>
    THEN [ok |-> FALSE, err |-> "empty module"]
    ELSE [ok |-> TRUE,
          val |-> [permissions |-> permissions,
                   metadata |-> [id |-> simple_hash(wasm_bytes),
                                 name |-> <<"component-">>
                                          \o hex016(simple_hash(wasm_bytes)),
                                 version |-> 1,
                                 loaded_at |-> get_timestamp(since_epoch),
                                 ai_generated |-> FALSE],
                   wasm_bytes |-> wasm_bytes]]

\* load, were it to mix the grant into the id
load_id_from_grant(wasm_bytes, permissions, since_epoch) ==
    LET component_id == wrapping_add(simple_hash(wasm_bytes),
                                     Cardinality(permissions.apis))
    IN [ok |-> TRUE,
        val |-> [permissions |-> permissions,
                 metadata |-> [id |-> component_id,
                               name |-> <<"component-">>
                                        \o hex016(component_id),
                               version |-> 1,
                               loaded_at |-> get_timestamp(since_epoch),
                               ai_generated |-> FALSE],
                 wasm_bytes |-> wasm_bytes]]

\* WasmComponent::load, which returns Ok(Self) on every path
load(wasm_bytes, permissions, since_epoch) ==
    LET component_id == simple_hash(wasm_bytes)
        metadata == [id |-> component_id,
                     name |-> <<"component-">> \o hex016(component_id),
                     version |-> 1,
                     loaded_at |-> get_timestamp(since_epoch),
                     ai_generated |-> FALSE]
    IN [ok |-> TRUE,
        val |-> [permissions |-> permissions, metadata |-> metadata,
                 wasm_bytes |-> wasm_bytes]]

\* WasmComponent::id
WasmComponent_id(self) == self.metadata.id

\* reload, were it to count only the calls that change the bytes
reload_counts_changes(self, wasm_bytes) ==
    [self |-> [self EXCEPT !.wasm_bytes = wasm_bytes,
                           !.metadata.version =
                               IF self.wasm_bytes = wasm_bytes
                               THEN @ ELSE @ + 1],
     ret |-> [ok |-> TRUE, val |-> <<>>]]

\* WasmComponent::reload, which returns Ok(()) on every path
reload(self, wasm_bytes) ==
    [self |-> [self EXCEPT !.wasm_bytes = wasm_bytes,
                           !.metadata.version = @ + 1],
     ret |-> [ok |-> TRUE, val |-> <<>>]]

\* HashMap::insert, for its effect on the map
map_insert(m, k, v) ==
    [x \in (DOMAIN m) \cup {k} |-> IF x = k THEN v ELSE m[x]]

\* HashMap::get
map_get(m, k) == IF k \in DOMAIN m THEN <<m[k]>> ELSE <<>>

\* HashMap::remove
map_remove(m, k) ==
    [self |-> [x \in (DOMAIN m) \ {k} |-> m[x]], ret |-> map_get(m, k)]

\* ComponentRegistry::new
ComponentRegistry_new == [components |-> <<>>, metadata |-> <<>>]

\* register, were it to keep the instance an id already has
register_keeps_old_instance(self, cid, comp, metadata) ==
    [components |-> IF cid \in DOMAIN self.components
                    THEN self.components
                    ELSE map_insert(self.components, cid, comp),
     metadata |-> map_insert(self.metadata, cid, metadata)]

\* ComponentRegistry::register
register(self, cid, comp, metadata) ==
    [components |-> map_insert(self.components, cid, comp),
     metadata |-> map_insert(self.metadata, cid, metadata)]

\* ComponentRegistry::get and get_mut
get(self, cid) == map_get(self.components, cid)

\* ComponentRegistry::metadata
metadata_of(self, cid) == map_get(self.metadata, cid)

\* list, were it to yield each distinct metadata value once
list_distinct(self) ==
    [m \in {self.metadata[k] : k \in DOMAIN self.metadata} |-> 1]

\* ComponentRegistry::list, as the bag of items the iterator yields: the
\* values of the metadata map, one per key, in no particular order
list(self) ==
    [m \in {self.metadata[k] : k \in DOMAIN self.metadata} |->
        Cardinality({k \in DOMAIN self.metadata : self.metadata[k] = m})]

\* remove, were it to leave the metadata behind
remove_instance_only(self, cid) ==
    LET c == map_remove(self.components, cid)
    IN [self |-> [components |-> c.self, metadata |-> self.metadata],
        ret |-> c.ret]

\* ComponentRegistry::remove
remove(self, cid) ==
    LET m == map_remove(self.metadata, cid)
        c == map_remove(self.components, cid)
    IN [self |-> [components |-> c.self, metadata |-> m.self], ret |-> c.ret]

\* no component is held, nothing is registered
NoCLog == [loaded |-> <<>>, reloads |-> 0]

\* no compile has been called
NoBuild ==
    [stage |-> "idle", source |-> <<>>, compiles |-> 0, checked |-> FALSE,
     project |-> <<>>, output |-> <<>>, read |-> FALSE,
     result |-> <<>>, delivered |-> <<>>]

RuntimeIdle ==
    /\ component = <<>>
    /\ clog = NoCLog
    /\ registry = ComponentRegistry_new
    /\ build = NoBuild

-----------------------------------------------------------------------------
(* Method-level specification: any sequence of calls on one VersionHistory. *)
(* ret records the call just made: its name, its arguments, the object     *)
(* before the call (pre) and the value returned (result); for add_version  *)
(* also last_rollback as it was when the call was made (since_rollback).   *)

\* (name, description, rust_code, wasm_bytes, ai_generated) argument tuples
VersionArgs ==
    { [name |-> <<118, 49>>, description |-> <<>>, rust_code |-> "code_a",
       wasm_bytes |-> WasmDemo, ai_generated |-> FALSE],
      [name |-> <<118, 50>>, description |-> <<100>>, rust_code |-> "code_b",
       wasm_bytes |-> <<255>>, ai_generated |-> TRUE] }

NoCall == [op |-> "none"]

NoGen == [r \in Req |-> <<>>]

\* no request has called the AI or the compiler
NoCalls ==
    [r \in Req |-> [ai |-> 0, compile |-> 0, failed |-> 0,
                    succeeded |-> FALSE, started_with |-> None]]

\* no VersionedState is under test
NoVCalls == [initial |-> 0, updates |-> 0, other_calls |-> 0]

InitVH ==
    /\ versions = VersionHistory_new
    /\ ret = NoCall
    /\ last_rollback = None
    /\ conversation = <<>>
    /\ api_key = ""
    /\ pc = [r \in Req |-> "unused"]
    /\ req = NoGen
    /\ iteration = [r \in Req |-> 0]
    /\ messages = NoGen
    /\ rust_code = NoGen
    /\ compiled = NoGen
    /\ resp = NoGen
    /\ calls = NoCalls
    /\ last_change = NoCall
    /\ vs = VersionedState_new(0)
    /\ vcalls = NoVCalls
    /\ RuntimeIdle

CallAddVersion ==
    \E a \in VersionArgs, now \in Times :
        /\ UNCHANGED aside_vars
        /\ Len(versions.versions) < MaxVersions
        /\ LET r == add_version(versions, a.name, a.description, a.rust_code,
                                a.wasm_bytes, a.ai_generated, now)
           IN /\ versions' = r.self
              /\ ret' = [op |-> "add_version", pre |-> versions,
                         since_rollback |-> last_rollback, result |-> r.ret]
        /\ last_rollback' = None
        /\ UNCHANGED gen_vars

CallRollbackTo ==
    \E version_id \in 0..(MaxVersions + 1) :
        /\ UNCHANGED aside_vars
        /\ LET r == rollback_to(versions, version_id)
           IN /\ versions' = r.self
              /\ ret' = [op |-> "rollback_to", version_id |-> version_id,
                         pre |-> versions, result |-> r.ret]
              /\ last_rollback' = IF is_some(r.ret)
                                  THEN Some([id |-> version_id,
                                             len |-> Len(versions.versions)])
                                  ELSE last_rollback
        /\ UNCHANGED gen_vars

CallUpdateState ==
    \E state \in StateValues :
        /\ UNCHANGED aside_vars
        /\ versions' = update_state(versions, state)
        /\ ret' = [op |-> "update_state", state |-> state, pre |-> versions]
        /\ last_rollback' = None
        /\ UNCHANGED gen_vars

CallGetCurrent ==
    /\ UNCHANGED aside_vars
    /\ ret' = [op |-> "get_current", pre |-> versions,
               result |-> get_current(versions)]
    /\ UNCHANGED <<versions, last_rollback>>
    /\ UNCHANGED gen_vars

CallGetHistory ==
    /\ UNCHANGED aside_vars
    /\ ret' = [op |-> "get_history", pre |-> versions,
               result |-> get_history(versions)]
    /\ UNCHANGED <<versions, last_rollback>>
    /\ UNCHANGED gen_vars

NextVH ==
    \/ CallAddVersion
    \/ CallRollbackTo
    \/ CallUpdateState
    \/ CallGetCurrent
    \/ CallGetHistory

SpecVH == InitVH /\ [][NextVH]_vars

-----------------------------------------------------------------------------
(* The morpheus-complete server.  A handler runs from one await to the     *)
(* next without interruption, and every access to a shared object lies     *)
(* between acquiring its tokio Mutex and dropping the guard with no await  *)
(* in between, so each action below is the code from the completion of one *)
(* await (a lock granted, a reply received) to the next await or return.   *)
(* pc[r] names the await a generate_component request is suspended at:     *)
(*   idle               the request has not arrived                        *)
(*   reset_conversation state.conversation.lock() before the reset         *)
(*   claude_lock        state.conversation.lock() in call_claude_api       *)
(*   claude_send        the HTTP exchange with the AI                      *)
(*   compile            state.compiler.compile(&rust_code)                 *)
(*   save_version       state.versions.lock() after compile returned Ok    *)
(*   feed_error         state.conversation.lock() after compile failed     *)
(*   done / aborted / panicked   returned; future dropped; task panicked   *)
(* The log lines a request collects are not modelled, nor are the bodies   *)
(* of the responses of /api/state, /api/rollback and /api/history, which   *)
(* are what the methods of the method-level specification return.          *)

MAX_ITERATIONS == 5

TRUNCATE_MAX == 40

Ok(v) == [ok |-> TRUE, val |-> v]

Err(e) == [ok |-> FALSE, err |-> e]

\* what compile may return for a source text
CompileOutcomes == {Ok(WasmDemo)} \cup {Err(e) : e \in CompileErrors}

\* what call_claude_api may return
ClaudeOutcomes == {Ok(c) : c \in Codes} \cup {Err(e) : e \in ApiErrors}

AwaitPoints ==
    {"reset_conversation", "claude_lock", "claude_send", "compile",
     "save_version", "feed_error"}

Terminal == {"done", "aborted", "panicked"}

Message(role, content) == [role |-> role, content |-> content]

\* create_system_prompt(), abbreviated
create_system_prompt == "You are a Rust expert generating WebAssembly components"

\* the GenerateResponse of the failure returns
FailureResponse(error, iterations) ==
    [success |-> FALSE, version_id |-> None, wasm_base64 |-> None,
     restored_state |-> None, error |-> Some(error), iterations |-> iterations]

Init ==
    /\ versions = VersionHistory_new
    /\ conversation = <<>>
    /\ api_key \in ApiKeys
    /\ pc = [r \in Req |-> "idle"]
    /\ req = NoGen
    /\ iteration = [r \in Req |-> 0]
    /\ messages = NoGen
    /\ rust_code = NoGen
    /\ compiled = NoGen
    /\ resp = NoGen
    /\ calls = NoCalls
    /\ ret = NoCall
    /\ last_rollback = None
    /\ last_change = NoCall
    /\ vs = VersionedState_new(0)
    /\ vcalls = NoVCalls
    /\ RuntimeIdle

\* the future's locals are dropped
DropLocals(r) ==
    /\ messages' = [messages EXCEPT ![r] = <<>>]
    /\ rust_code' = [rust_code EXCEPT ![r] = None]
    /\ compiled' = [compiled EXCEPT ![r] = None]

\* return Ok(Json(response))
Return(r, response) ==
    /\ pc' = [pc EXCEPT ![r] = "done"]
    /\ resp' = [resp EXCEPT ![r] = Some(response)]
    /\ DropLocals(r)

\* the head of the retry loop: iteration += 1, the budget check, and the
\* call of call_claude_api up to its first await
LoopHead(r) ==
    LET it == iteration[r] + 1
    IN /\ iteration' = [iteration EXCEPT ![r] = it]
       /\ IF it > MAX_ITERATIONS
          THEN Return(r, FailureResponse("Failed after 5 attempts", it - 1))
          ELSE /\ pc' = [pc EXCEPT ![r] = "claude_lock"]
               /\ UNCHANGED <<resp, messages, rust_code, compiled>>

\* the request arrives; the API key check
Start(r) ==
    /\ UNCHANGED aside_vars
    /\ pc[r] = "idle"
    /\ \E prompt \in Prompts : req' = [req EXCEPT ![r] = Some([prompt |-> prompt])]
    /\ IF api_key = ""
       THEN Return(r, FailureResponse("ANTHROPIC_API_KEY not configured", 0))
       ELSE /\ pc' = [pc EXCEPT ![r] = "reset_conversation"]
            /\ UNCHANGED <<resp, messages, rust_code, compiled>>
    /\ calls' = [calls EXCEPT ![r].started_with = versions.current_state]
    /\ UNCHANGED <<versions, conversation, api_key, iteration, ret, last_rollback>>

\* the conversation is reset and the loop entered
ResetConversation(r) ==
    /\ UNCHANGED aside_vars
    /\ pc[r] = "reset_conversation"
    /\ conversation' =
          << Message("user", create_system_prompt),
             Message("user", <<"Create a WASM component: ", req[r][1].prompt>>) >>
    /\ LoopHead(r)
    /\ UNCHANGED <<versions, api_key, req, ret, last_rollback, calls>>

\* call_claude_api clones the conversation and sends it
ClaudeSend(r) ==
    /\ UNCHANGED aside_vars
    /\ pc[r] = "claude_lock"
    /\ messages' = [messages EXCEPT ![r] = conversation]
    /\ pc' = [pc EXCEPT ![r] = "claude_send"]
    /\ calls' = [calls EXCEPT ![r].ai = @ + 1]
    /\ UNCHANGED <<versions, conversation, api_key, req, iteration, rust_code,
                   compiled, resp, ret, last_rollback>>

\* ClaudeReturns that enters the generated code in the history before it
\* has been compiled
ClaudeReturns_saves_first(r) ==
    /\ UNCHANGED aside_vars
    /\ pc[r] = "claude_send"
    /\ \E outcome \in ClaudeOutcomes :
          IF outcome.ok
          THEN /\ rust_code' = [rust_code EXCEPT ![r] = Some(outcome.val)]
               /\ messages' = [messages EXCEPT ![r] = <<>>]
               /\ pc' = [pc EXCEPT ![r] = "compile"]
               /\ versions' = add_version(versions, AiGeneratedPrefix,
                                          req[r][1].prompt, outcome.val, <<>>,
                                          TRUE, 0).self
               /\ calls' = [calls EXCEPT ![r].compile = @ + 1]
               /\ UNCHANGED <<resp, compiled>>
          ELSE /\ Return(r, FailureResponse(<<"AI API error: ", outcome.err>>,
                                            iteration[r]))
               /\ UNCHANGED <<versions, calls>>
    /\ UNCHANGED <<conversation, api_key, req, iteration, ret, last_rollback>>

\* call_claude_api returns and the compile is started, or the error returned
ClaudeReturns(r) ==
    /\ UNCHANGED aside_vars
    /\ pc[r] = "claude_send"
    /\ \E outcome \in ClaudeOutcomes :
          IF outcome.ok
          THEN /\ rust_code' = [rust_code EXCEPT ![r] = Some(outcome.val)]
               /\ messages' = [messages EXCEPT ![r] = <<>>]
               /\ pc' = [pc EXCEPT ![r] = "compile"]
               /\ calls' = [calls EXCEPT ![r].compile = @ + 1]
               /\ UNCHANGED <<resp, compiled>>
          ELSE /\ Return(r, FailureResponse(<<"AI API error: ", outcome.err>>,
                                            iteration[r]))
               /\ UNCHANGED calls
    /\ UNCHANGED <<versions, conversation, api_key, req, iteration, ret,
                   last_rollback>>

\* compile returns
CompileReturns(r) ==
    /\ UNCHANGED aside_vars
    /\ pc[r] = "compile"
    /\ \E outcome \in CompileOutcomes :
          /\ compiled' = [compiled EXCEPT ![r] = Some(outcome)]
          /\ pc' = [pc EXCEPT ![r] = IF outcome.ok THEN "save_version"
                                                   ELSE "feed_error"]
          /\ calls' = IF outcome.ok
                      THEN [calls EXCEPT ![r].succeeded = TRUE]
                      ELSE [calls EXCEPT ![r].failed = @ + 1]
    /\ UNCHANGED <<versions, conversation, api_key, req, iteration, messages,
                   rust_code, resp, ret, last_rollback>>

\* GenerateResponse of the success return
SuccessResponse(version_id, bytes, restored_state, iterations) ==
    [success |-> TRUE, version_id |-> Some(version_id),
     wasm_base64 |-> Some(base64_encode(bytes)),
     restored_state |-> restored_state, error |-> None,
     iterations |-> iterations]

\* SaveVersion that answers with the snapshot of the entry that was current
\* instead of the cached state it read under the lock
SaveVersion_returns_entry_snapshot(r) ==
    /\ UNCHANGED aside_vars
    /\ pc[r] = "save_version"
    /\ LET prompt == req[r][1].prompt
           bytes == compiled[r][1].val
           current == get_current(versions)
           restored_state == IF is_some(current)
                             THEN current[1].state_snapshot
                             ELSE None
           short == truncate(PromptText(prompt), TRUNCATE_MAX)
       IN IF short.panic
          THEN /\ pc' = [pc EXCEPT ![r] = "panicked"]
               /\ DropLocals(r)
               /\ UNCHANGED <<versions, resp, last_rollback>>
          ELSE \E now \in Times :
                  LET a == add_version(versions, AiGeneratedPrefix \o short.val,
                                       prompt, rust_code[r][1], bytes, TRUE, now)
                  IN /\ versions' = a.self
                     /\ last_rollback' = None
                     /\ Return(r, SuccessResponse(a.ret, bytes, restored_state,
                                                  iteration[r]))
    /\ UNCHANGED <<conversation, api_key, req, iteration, ret, calls>>

\* SaveVersion that snapshots the cached state there was when the request
\* arrived, as if it had been read before the build
SaveVersion_snapshots_start_state(r) ==
    /\ UNCHANGED aside_vars
    /\ pc[r] = "save_version"
    /\ LET prompt == req[r][1].prompt
           bytes == compiled[r][1].val
           restored_state == calls[r].started_with
           short == truncate(PromptText(prompt), TRUNCATE_MAX)
       IN IF short.panic
          THEN /\ pc' = [pc EXCEPT ![r] = "panicked"]
               /\ DropLocals(r)
               /\ UNCHANGED <<versions, resp, last_rollback>>
          ELSE \E now \in Times :
                  LET a == add_version([versions EXCEPT
                                           !.current_state = restored_state],
                                       AiGeneratedPrefix \o short.val,
                                       prompt, rust_code[r][1], bytes, TRUE, now)
                  IN /\ versions' = [a.self EXCEPT !.current_state =
                                                       versions.current_state]
                     /\ last_rollback' = None
                     /\ Return(r, SuccessResponse(a.ret, bytes, restored_state,
                                                  iteration[r]))
    /\ UNCHANGED <<conversation, api_key, req, iteration, ret, calls>>

\* the Ok arm: under the versions lock the cached state is read, the version
\* added and the response returned; truncate may panic before add_version
SaveVersion(r) ==
    /\ UNCHANGED aside_vars
    /\ pc[r] = "save_version"
    /\ LET prompt == req[r][1].prompt
           bytes == compiled[r][1].val
           restored_state == versions.current_state
           short == truncate(PromptText(prompt), TRUNCATE_MAX)
       IN IF short.panic
          THEN /\ pc' = [pc EXCEPT ![r] = "panicked"]
               /\ DropLocals(r)
               /\ UNCHANGED <<versions, resp, last_rollback>>
          ELSE \E now \in Times :
                  LET a == add_version(versions, AiGeneratedPrefix \o short.val,
                                       prompt, rust_code[r][1], bytes, TRUE, now)
                  IN /\ versions' = a.self
                     /\ last_rollback' = None
                     /\ Return(r, SuccessResponse(a.ret, bytes, restored_state,
                                                  iteration[r]))
    /\ UNCHANGED <<conversation, api_key, req, iteration, ret, calls>>

\* FeedError that also records the failed attempt as a version
FeedError_records_attempt(r) ==
    /\ UNCHANGED aside_vars
    /\ pc[r] = "feed_error"
    /\ conversation' = conversation \o
          << Message("assistant", rust_code[r][1]),
             Message("user", <<"That code failed to compile with this error:",
                               compiled[r][1].err, "Fix it.">>) >>
    /\ versions' = add_version(versions, AiGeneratedPrefix, req[r][1].prompt,
                               rust_code[r][1], <<>>, TRUE, 0).self
    /\ LoopHead(r)
    /\ UNCHANGED <<api_key, req, ret, last_rollback, calls>>

\* the Err arm: the failed attempt and its error are appended to the
\* conversation and the loop continues
FeedError(r) ==
    /\ UNCHANGED aside_vars
    /\ pc[r] = "feed_error"
    /\ conversation' = conversation \o
          << Message("assistant", rust_code[r][1]),
             Message("user", <<"That code failed to compile with this error:",
                               compiled[r][1].err, "Fix it.">>) >>
    /\ LoopHead(r)
    /\ UNCHANGED <<versions, api_key, req, ret, last_rollback, calls>>

\* the client goes away and the handler's future is dropped at an await
Abort(r) ==
    /\ UNCHANGED aside_vars
    /\ pc[r] \in AwaitPoints
    /\ pc' = [pc EXCEPT ![r] = "aborted"]
    /\ DropLocals(r)
    /\ UNCHANGED <<versions, conversation, api_key, req, iteration, resp, ret,
                   last_rollback, calls>>

\* POST /api/state
HandleUpdateState ==
    \E state \in ServerStates :
        /\ UNCHANGED aside_vars
        /\ versions' = update_state(versions, state)
        /\ last_rollback' = None
        /\ UNCHANGED <<gen_vars, ret>>

\* POST /api/rollback
HandleRollback ==
    \E version_id \in 0..NumReq :
        LET r == rollback_to(versions, version_id)
        IN /\ versions' = r.self
           /\ UNCHANGED aside_vars
           /\ last_rollback' = IF is_some(r.ret)
                               THEN Some([id |-> version_id,
                                          len |-> Len(versions.versions)])
                               ELSE last_rollback
           /\ UNCHANGED <<gen_vars, ret>>

Next ==
    \/ \E r \in Req : Start(r)
    \/ \E r \in Req : ResetConversation(r)
    \/ \E r \in Req : ClaudeSend(r)
    \/ \E r \in Req : ClaudeReturns(r)
    \/ \E r \in Req : CompileReturns(r)
    \/ \E r \in Req : SaveVersion(r)
    \/ \E r \in Req : FeedError(r)
    \/ \E r \in Req : Abort(r)
    \/ HandleUpdateState
    \/ HandleRollback

Spec == Init /\ [][Next]_vars

-----------------------------------------------------------------------------
(* The safety-demo server.  Its VersionHistory is the one above without    *)
(* the ai_generated field: add_version and get_history differ by that      *)
(* field, rollback_to, update_state and get_current are the same text.     *)
(* Every handler takes the versions lock at its only await and runs to its *)
(* return under it, so a handler is one action.  ret records the request   *)
(* just served, the response returned and last_change as the handler       *)
(* found it (before); last_change records the last call that changed the   *)
(* history: for add_version, the index that was current and the cached     *)
(* live state when the new version was loaded.                             *)

\* safety-demo's VersionHistory::add_version
sd_add_version(self, name, description, code, bytes, now) ==
    LET id == Len(self.versions)
        version == [id |-> id,
                    name |-> name,
                    description |-> description,
                    rust_code |-> code,
                    wasm_base64 |-> base64_encode(bytes),
                    created_at |-> now,
                    state_snapshot |-> self.current_state]
    IN [self |-> [self EXCEPT !.versions = Append(@, version),
                              !.current_index = id],
        ret |-> id]

\* safety-demo's VersionHistory::get_history
sd_get_history(self) ==
    [i \in 1..Len(self.versions) |->
        LET v == self.versions[i]
        IN [id |-> v.id,
            name |-> v.name,
            description |-> v.description,
            created_at |-> to_rfc3339(v.created_at),
            is_current |-> (v.id = self.current_index)]]

\* compile_demo_component: the minimal module, whatever the source
compile_demo_component(code) == Ok(WasmDemo)

\* LoadVersionRequest bodies
LoadVersionRequests ==
    { [name |-> <<118, 49>>, description |-> <<>>, rust_code |-> "code_a"],
      [name |-> <<118, 50>>, description |-> <<100>>, rust_code |-> "code_b"] }

InitSD ==
    /\ versions = VersionHistory_new
    /\ ret = NoCall
    /\ last_change = NoCall
    /\ last_rollback = None
    /\ conversation = <<>>
    /\ api_key = ""
    /\ pc = [r \in Req |-> "unused"]
    /\ req = NoGen
    /\ iteration = [r \in Req |-> 0]
    /\ messages = NoGen
    /\ rust_code = NoGen
    /\ compiled = NoGen
    /\ resp = NoGen
    /\ calls = NoCalls
    /\ vs = VersionedState_new(0)
    /\ vcalls = NoVCalls
    /\ RuntimeIdle

\* what no safety-demo handler touches
sd_frame == <<gen_vars, last_rollback, vs, vcalls, rt_vars>>

\* load_version that hands the new component no state
SD_load_version_no_restore ==
    \E request \in LoadVersionRequests, now \in Times :
        LET wasm == compile_demo_component(request.rust_code)
            a == sd_add_version(versions, request.name, request.description,
                                request.rust_code, wasm.val, now)
        IN /\ Len(versions.versions) < MaxVersions
           /\ wasm.ok
           /\ versions' = a.self
           /\ ret' = [op |-> "load_version", request |-> request,
                      before |-> last_change,
                      response |-> [success |-> TRUE, version_id |-> a.ret,
                                    wasm_base64 |-> base64_encode(wasm.val),
                                    restored_state |-> None,
                                    error |-> None]]
           /\ last_change' = [op |-> "add_version",
                              had_prev |-> Len(versions.versions) > 0,
                              prev_index |-> versions.current_index,
                              live |-> versions.current_state]
           /\ UNCHANGED sd_frame

\* POST /api/load
SD_load_version ==
    \E request \in LoadVersionRequests, now \in Times :
        LET wasm == compile_demo_component(request.rust_code)
            restored_state == versions.current_state
            a == sd_add_version(versions, request.name, request.description,
                                request.rust_code, wasm.val, now)
        IN /\ Len(versions.versions) < MaxVersions
           /\ wasm.ok
           /\ versions' = a.self
           /\ ret' = [op |-> "load_version", request |-> request,
                      before |-> last_change,
                      response |-> [success |-> TRUE, version_id |-> a.ret,
                                    wasm_base64 |-> base64_encode(wasm.val),
                                    restored_state |-> restored_state,
                                    error |-> None]]
           /\ last_change' = [op |-> "add_version",
                              had_prev |-> Len(versions.versions) > 0,
                              prev_index |-> versions.current_index,
                              live |-> versions.current_state]
           /\ UNCHANGED sd_frame

\* POST /api/state
SD_update_state ==
    \E state \in StateValues :
        /\ versions' = update_state(versions, state)
        /\ ret' = [op |-> "update_state", request |-> [state |-> state],
                   before |-> last_change, response |-> [success |-> TRUE]]
        /\ last_change' = [op |-> "update_state", state |-> state]
        /\ UNCHANGED sd_frame

\* POST /api/rollback
SD_rollback ==
    \E version_id \in 0..MaxVersions :
        LET r == rollback_to(versions, version_id)
        IN /\ versions' = r.self
           /\ ret' = [op |-> "rollback",
                      request |-> [version_id |-> version_id],
                      before |-> last_change,
                      response |->
                          IF is_some(r.ret)
                          THEN [success |-> TRUE, version_id |-> r.ret[1].id,
                                wasm_base64 |-> r.ret[1].wasm_base64,
                                restored_state |-> r.ret[1].state_snapshot,
                                error |-> None]
                          ELSE [success |-> FALSE, version_id |-> 0,
                                wasm_base64 |-> <<>>,
                                restored_state |-> None,
                                error |-> Some(<<"Version ", version_id,
                                                 " not found">>)]]
           /\ last_change' = IF is_some(r.ret)
                             THEN [op |-> "rollback_to", version_id |-> version_id]
                             ELSE last_change
           /\ UNCHANGED sd_frame

\* GET /api/history
SD_get_history ==
    /\ ret' = [op |-> "get_history", before |-> last_change,
               response |-> [versions |-> sd_get_history(versions),
                             current_state |-> versions.current_state]]
    /\ UNCHANGED <<versions, last_change>>
    /\ UNCHANGED sd_frame

NextSD ==
    \/ SD_load_version
    \/ SD_update_state
    \/ SD_rollback
    \/ SD_get_history

SpecSD == InitSD /\ [][NextSD]_vars

-----------------------------------------------------------------------------
(* Method-level specification of VersionedState: any sequence of calls on  *)
(* one object created by new.  ret records the call just made, the object  *)
(* before it (pre) and what it returned (result); a rollback also records  *)
(* the object as it was before the update it directly follows, if it       *)
(* follows one (updated_from).  The client is a counter: it updates to the *)
(* successor of the current value, as the loop of test_history_size_limit  *)
(* does, so every snapshot pushed in a run of updates differs from the     *)
(* others.                                                                 *)

\* updates stop once the version has reached this
MaxUpdates == 52

\* most calls other than update made on the object
MaxOtherCalls == 2

\* values handed to new
InitialValues == {0, 42}

\* snapshots a caller holds that were never in the history
ForeignSnapshots == {Snapshot(99, 7, "2024-06-01T12:00:00Z")}

\* the snapshots handed to restore: the oldest and the newest of history()
\* and the foreign ones
RestoreInputs(self) ==
    ForeignSnapshots \cup
        (IF Len(self.history) > 0
         THEN {self.history[1], self.history[Len(self.history)]}
         ELSE {})

\* what no VersionedState call touches
vs_frame == <<versions, gen_vars, last_rollback, last_change, rt_vars>>

InitVS ==
    /\ \E initial \in InitialValues :
           /\ vs = VersionedState_new(initial)
           /\ vcalls = [initial |-> initial, updates |-> 0,
                        other_calls |-> 0]
    /\ ret = NoCall
    /\ versions = VersionHistory_new
    /\ last_rollback = None
    /\ last_change = NoCall
    /\ conversation = <<>>
    /\ api_key = ""
    /\ pc = [r \in Req |-> "unused"]
    /\ req = NoGen
    /\ iteration = [r \in Req |-> 0]
    /\ messages = NoGen
    /\ rust_code = NoGen
    /\ compiled = NoGen
    /\ resp = NoGen
    /\ calls = NoCalls
    /\ RuntimeIdle

CallUpdate ==
    /\ vs.version < MaxUpdates
    /\ LET new_state == vs.current + 1
       IN /\ vs' = update(vs, new_state)
          /\ ret' = [op |-> "update", new_state |-> new_state, pre |-> vs]
    /\ vcalls' = [vcalls EXCEPT !.updates = @ + 1]
    /\ UNCHANGED vs_frame

CallRollback ==
    /\ vcalls.other_calls < MaxOtherCalls
    /\ LET r == rollback(vs)
       IN /\ vs' = r.self
          /\ ret' = [op |-> "rollback", pre |-> vs, result |-> r.ret,
                     updated_from |-> IF ret.op = "update"
                                      THEN Some(ret.pre) ELSE None]
    /\ vcalls' = [vcalls EXCEPT !.other_calls = @ + 1]
    /\ UNCHANGED vs_frame

CallRestore ==
    \E snap \in RestoreInputs(vs) :
        /\ vcalls.other_calls < MaxOtherCalls
        /\ vs' = restore(vs, snap)
        /\ ret' = [op |-> "restore", snapshot |-> snap, pre |-> vs]
        /\ vcalls' = [vcalls EXCEPT !.other_calls = @ + 1]
        /\ UNCHANGED vs_frame

CallClearHistory ==
    /\ vcalls.other_calls < MaxOtherCalls
    /\ vs' = clear_history(vs)
    /\ ret' = [op |-> "clear_history", pre |-> vs]
    /\ vcalls' = [vcalls EXCEPT !.other_calls = @ + 1]
    /\ UNCHANGED vs_frame

NextVS ==
    \/ CallUpdate
    \/ CallRollback
    \/ CallRestore
    \/ CallClearHistory

SpecVS == InitVS /\ [][NextVS]_vars

-----------------------------------------------------------------------------
(* Undo runs on one VersionedState: a caller updates a fresh state some    *)
(* number of times and then only rolls back.  vcalls.updates counts the    *)
(* updates and vcalls.other_calls the rollback calls made after them.      *)

MaxRollbacks == 52

\* state.update(new_state), before the first rollback
RunUpdate ==
    /\ vcalls.other_calls = 0
    /\ vcalls.updates < MaxUpdates
    /\ LET new_state == vs.current + 1
       IN /\ vs' = update(vs, new_state)
          /\ ret' = [op |-> "update", new_state |-> new_state, pre |-> vs]
    /\ vcalls' = [vcalls EXCEPT !.updates = @ + 1]
    /\ UNCHANGED vs_frame

\* state.rollback()
RunRollback ==
    /\ vcalls.other_calls < MaxRollbacks
    /\ LET r == rollback(vs)
       IN /\ vs' = r.self
          /\ ret' = [op |-> "rollback", pre |-> vs, result |-> r.ret]
    /\ vcalls' = [vcalls EXCEPT !.other_calls = @ + 1]
    /\ UNCHANGED vs_frame

NextUD ==
    \/ RunUpdate
    \/ RunRollback

SpecUD == InitVS /\ [][NextUD]_vars

-----------------------------------------------------------------------------
(* update, rollback and clear_history on one VersionedState in any order,  *)
(* without restore.  The number of calls is not limited; update is held    *)
(* back once the version reaches MaxUpdates.                               *)

\* state.update(new_state)
FreeUpdate ==
    /\ vs.version < MaxUpdates
    /\ LET new_state == vs.current + 1
       IN /\ vs' = update(vs, new_state)
          /\ ret' = [op |-> "update", new_state |-> new_state, pre |-> vs]
    /\ UNCHANGED <<vcalls, vs_frame>>

\* state.rollback()
FreeRollback ==
    /\ LET r == rollback(vs)
       IN /\ vs' = r.self
          /\ ret' = [op |-> "rollback", pre |-> vs, result |-> r.ret]
    /\ UNCHANGED <<vcalls, vs_frame>>

\* state.clear_history()
FreeClearHistory ==
    /\ vs' = clear_history(vs)
    /\ ret' = [op |-> "clear_history", pre |-> vs]
    /\ UNCHANGED <<vcalls, vs_frame>>

NextVU ==
    \/ FreeUpdate
    \/ FreeRollback
    \/ FreeClearHistory

SpecVU == InitVS /\ [][NextVU]_vars

-----------------------------------------------------------------------------
(* Method-level specification of WasmComponent: a caller loads components  *)
(* and reloads the one it holds.  ret records the last call: for load, the *)
(* arguments, the result and what the load before it was given and got     *)
(* (prev); for reload, the argument, the result and the component as the   *)
(* call found it (pre).  clog records what load was given for the          *)
(* component held, the id and version it returned, and the number of       *)
(* reload calls made on the component since.  The version is a u32 and the *)
(* runs stay far below 2^32 reloads, so its addition is plain.             *)

MaxReloads == 3

\* artifacts handed to load: the byte vectors of the tests of wasm_loader.rs
\* and vectors that differ in leading zero bytes, in a carry between
\* neighbouring bytes and after the 64th byte
LoadInputs ==
    {<<>>, <<0>>, <<1, 2, 3, 4>>, <<5, 6, 7, 8>>, <<1, 0>>, <<0, 31>>,
     WasmDemo, Rep(1, 64), Rep(1, 100)}

\* artifacts handed to reload
ReloadInputs == {<<>>, <<1, 2, 3, 4>>, <<5, 6, 7, 8>>}

\* grants: the default, the one of test_component_permissions and the one
\* of test_reload_preserves_permissions
Grants ==
    {Permissions_default,
     [network |-> [tag |-> "AllowList", domains |-> <<"api.example.com">>],
      storage |-> [tag |-> "Full"],
      apis |-> {"Geolocation"}],
     [network |-> [tag |-> "Unrestricted"],
      storage |-> [tag |-> "None"],
      apis |-> {}]}

\* what duration_since(UNIX_EPOCH) returns: seconds, or an error when the
\* clock is set before the epoch
Clocks == {Ok(1700000000), Err("SystemTimeError")}

wc_frame == <<versions, gen_vars, last_rollback, last_change, vs, vcalls,
              registry, build>>

InitWC ==
    /\ component = None
    /\ clog = NoCLog
    /\ registry = ComponentRegistry_new
    /\ build = NoBuild
    /\ ret = NoCall
    /\ vs = VersionedState_new(0)
    /\ vcalls = NoVCalls
    /\ versions = VersionHistory_new
    /\ last_rollback = None
    /\ last_change = NoCall
    /\ conversation = <<>>
    /\ api_key = ""
    /\ pc = [r \in Req |-> "unused"]
    /\ req = NoGen
    /\ iteration = [r \in Req |-> 0]
    /\ messages = NoGen
    /\ rust_code = NoGen
    /\ compiled = NoGen
    /\ resp = NoGen
    /\ calls = NoCalls

\* let component = WasmComponent::load(&wasm_bytes, permissions).await?;
CallLoad ==
    \E wasm_bytes \in LoadInputs, permissions \in Grants, now \in Clocks :
        LET result == load(wasm_bytes, permissions, now) IN
        /\ ret' = [op |-> "load", wasm_bytes |-> wasm_bytes,
                   permissions |-> permissions, result |-> result,
                   prev |-> clog.loaded]
        /\ IF result.ok
           THEN /\ component' = Some(result.val)
                /\ clog' = [loaded |-> Some([wasm_bytes |-> wasm_bytes,
                                             permissions |-> permissions,
                                             id |-> WasmComponent_id(
                                                        result.val),
                                             version |->
                                                 result.val.metadata.version]),
                            reloads |-> 0]
           ELSE UNCHANGED <<component, clog>>
        /\ UNCHANGED wc_frame

\* component.reload(&wasm_bytes).await
CallReload ==
    /\ is_some(component)
    /\ clog.reloads < MaxReloads
    /\ \E wasm_bytes \in ReloadInputs :
           LET r == reload(component[1], wasm_bytes) IN
           /\ component' = Some(r.self)
           /\ clog' = [clog EXCEPT !.reloads = @ + 1]
           /\ ret' = [op |-> "reload", wasm_bytes |-> wasm_bytes,
                      pre |-> component[1], result |-> r.ret]
    /\ UNCHANGED wc_frame

NextWC ==
    \/ CallLoad
    \/ CallReload

SpecWC == InitWC /\ [][NextWC]_vars

-----------------------------------------------------------------------------
(* Method-level specification of ComponentRegistry: a caller loads a       *)
(* component and registers it, looks ids up, reloads a registered          *)
(* component through get_mut and removes ids.  register takes the key, the *)
(* component and the metadata as three separate arguments, so the caller   *)
(* chooses each: the key is the component's own id or another one, the     *)
(* metadata is a clone of the component's own or a literal.  ret records   *)
(* the last call, with its arguments, its result and the registry as the   *)
(* call found it (pre).                                                    *)

MaxComponents == 2
MaxRegistryReloads == 1

\* create_test_metadata of the tests of the registry
create_test_metadata(cid, name, version) ==
    [id |-> cid, name |-> name, version |-> version,
     loaded_at |-> <<"2025-01-01T00:00:00Z">>, ai_generated |-> FALSE]

\* a ComponentMetadata literal for a component that an AI generated
generated_metadata(cid) ==
    [id |-> cid, name |-> <<"generated">>, version |-> 1,
     loaded_at |-> <<"2025-01-01T00:00:00Z">>, ai_generated |-> TRUE]

\* artifacts the caller of the registry loads and reloads
RegistryInputs == {<<1, 2, 3, 4>>, <<5, 6, 7, 8>>}

\* grants the caller of the registry loads with
RegistryGrants ==
    {Permissions_default,
     [network |-> [tag |-> "AllowList", domains |-> <<"api.example.com">>],
      storage |-> [tag |-> "Full"],
      apis |-> {"Geolocation"}]}

\* the fake_id of test_remove_nonexistent_component
fake_id == u64(999)

\* ids the caller passes: those of the artifacts and fake_id
RegistryIds == {simple_hash(b) : b \in RegistryInputs} \cup {fake_id}

\* the metadata a caller may pass with component c under key cid
MetadataFor(c, cid) ==
    {c.metadata,
     create_test_metadata(cid, <<"version-2">>, 2),
     generated_metadata(cid)}

cr_frame == <<versions, gen_vars, last_rollback, last_change, vs, vcalls,
              component, clog, build>>

\* let component = WasmComponent::load(&bytes, permissions).await?;
\* registry.register(id, component, metadata);
CallRegister ==
    \E wasm_bytes \in RegistryInputs, permissions \in RegistryGrants :
        LET loaded == load(wasm_bytes, permissions, Ok(1700000000)) IN
        /\ loaded.ok
        /\ \E cid \in {WasmComponent_id(loaded.val), fake_id} :
           \E metadata \in MetadataFor(loaded.val, cid) :
               /\ \/ cid \in DOMAIN registry.components
                  \/ Cardinality(DOMAIN registry.components) < MaxComponents
               /\ registry' = register(registry, cid, loaded.val, metadata)
               /\ ret' = [op |-> "register", id |-> cid,
                          component |-> loaded.val, metadata |-> metadata,
                          pre |-> registry]
        /\ UNCHANGED cr_frame

\* registry.get(&id)
CallGet ==
    /\ \E cid \in RegistryIds :
           ret' = [op |-> "get", id |-> cid, pre |-> registry,
                   result |-> get(registry, cid)]
    /\ UNCHANGED <<registry, cr_frame>>

\* registry.get_mut(&id), the reference dropped unused
CallGetMut ==
    /\ \E cid \in RegistryIds :
           ret' = [op |-> "get_mut", id |-> cid, pre |-> registry,
                   result |-> get(registry, cid)]
    /\ UNCHANGED <<registry, cr_frame>>

\* registry.metadata(&id)
CallMetadata ==
    /\ \E cid \in RegistryIds :
           ret' = [op |-> "metadata", id |-> cid, pre |-> registry,
                   result |-> metadata_of(registry, cid)]
    /\ UNCHANGED <<registry, cr_frame>>

\* registry.list().collect()
CallList ==
    /\ ret' = [op |-> "list", pre |-> registry, result |-> list(registry)]
    /\ UNCHANGED <<registry, cr_frame>>

\* registry.remove(&id)
CallRemove ==
    /\ \E cid \in RegistryIds :
           LET r == remove(registry, cid) IN
           /\ registry' = r.self
           /\ ret' = [op |-> "remove", id |-> cid, pre |-> registry,
                      result |-> r.ret]
    /\ UNCHANGED cr_frame

\* a reload that also brings the registry's metadata up to date
CallReloadRegistered_syncs_metadata ==
    /\ \E cid \in DOMAIN registry.components, wasm_bytes \in RegistryInputs :
           LET r == reload(registry.components[cid], wasm_bytes) IN
           /\ registry.components[cid].metadata.version <= MaxRegistryReloads
           /\ registry' = [registry EXCEPT
                              !.components[cid] = r.self,
                              !.metadata[cid].version = r.self.metadata.version]
           /\ ret' = [op |-> "reload", id |-> cid, wasm_bytes |-> wasm_bytes,
                      pre |-> registry, result |-> r.ret]
    /\ UNCHANGED cr_frame

\* let component = registry.get_mut(&id).ok_or_else(..)?;
\* component.reload(&bytes).await?;
CallReloadRegistered ==
    /\ \E cid \in DOMAIN registry.components, wasm_bytes \in RegistryInputs :
           LET r == reload(registry.components[cid], wasm_bytes) IN
           /\ registry.components[cid].metadata.version <= MaxRegistryReloads
           /\ registry' = [registry EXCEPT !.components[cid] = r.self]
           /\ ret' = [op |-> "reload", id |-> cid, wasm_bytes |-> wasm_bytes,
                      pre |-> registry, result |-> r.ret]
    /\ UNCHANGED cr_frame

NextCR ==
    \/ CallRegister
    \/ CallGet
    \/ CallGetMut
    \/ CallMetadata
    \/ CallList
    \/ CallRemove
    \/ CallReloadRegistered

SpecCR == InitWC /\ [][NextCR]_vars

-----------------------------------------------------------------------------
(* morpheus-compiler: SubprocessCompiler.                                   *)
(*                                                                          *)
(* A str is the sequence of its characters, each a one-character string;    *)
(* the texts used here are ASCII, so byte offsets are character offsets.    *)
(* Text that the code only appends and never searches is kept as one        *)
(* element.  The stderr of the build is the sequence of its lines.          *)

\* str::find: the byte offset of the first match
str_find(s, pat) ==
    LET hits == {i \in 0..(Len(s) - Len(pat)) :
                    SubSeq(s, i + 1, i + Len(pat)) = pat}
    IN IF hits = {}
       THEN None
       ELSE Some(CHOOSE i \in hits : \A j \in hits : i <= j)

\* str::contains
str_contains(s, pat) == is_some(str_find(s, pat))

\* str::starts_with
starts_with(s, pat) ==
    Len(s) >= Len(pat) /\ SubSeq(s, 1, Len(pat)) = pat

\* str::trim
str_trim(s) ==
    LET kept == {i \in 1..Len(s) : s[i] # " "}
    IN IF kept = {}
       THEN <<>>
       ELSE SubSeq(s, CHOOSE i \in kept : \A j \in kept : i <= j,
                      CHOOSE i \in kept : \A j \in kept : i >= j)

\* &s[begin..end], which panics when begin is past end or end past the end
str_slice(s, begin, end) ==
    IF begin <= end /\ end <= Len(s)
    THEN [panic |-> FALSE, val |-> SubSeq(s, begin + 1, end)]
    ELSE [panic |-> TRUE, val |-> <<>>]

\* str::split(pat).collect()
RECURSIVE str_split(_, _)
str_split(s, pat) ==
    LET at == str_find(s, pat)
    IN IF at = None
       THEN <<s>>
       ELSE <<SubSeq(s, 1, at[1])>>
                \o str_split(SubSeq(s, at[1] + Len(pat) + 1, Len(s)), pat)

DecimalDigits == <<"0", "1", "2", "3", "4", "5", "6", "7", "8", "9">>

\* str::parse::<usize>().ok(), for numbers of a few digits
parse_usize(s) ==
    LET digits == IF s # <<>> /\ s[1] = "+" THEN Tail(s) ELSE s
        value[i \in 0..Len(digits)] ==
            IF i = 0
            THEN 0
            ELSE value[i - 1] * 10
                    + (CHOOSE d \in 0..9 : DecimalDigits[d + 1] = digits[i])
    IN IF digits # <<>>
          /\ \A i \in 1..Len(digits) :
                \E d \in 1..10 : DecimalDigits[d] = digits[i]
       THEN Some(value[Len(digits)])
       ELSE None

\* usize's Display
RECURSIVE usize_to_string(_)
usize_to_string(n) ==
    IF n < 10
    THEN <<DecimalDigits[n + 1]>>
    ELSE usize_to_string(n \div 10) \o <<DecimalDigits[(n % 10) + 1]>>

\* [a, b, ..].join(sep)
RECURSIVE join(_, _)
join(parts, sep) ==
    IF Len(parts) = 0
    THEN <<>>
    ELSE IF Len(parts) = 1
         THEN parts[1]
         ELSE parts[1] \o sep \o join(Tail(parts), sep)

\* MorpheusError::CompilationError(message)
MorpheusError_CompilationError(message) ==
    [kind |-> "CompilationError", message |-> message]

\* SubprocessCompiler::check_tools, given what running each tool with
\* --version gave: "spawn_error", "failure" (it exited with a failure
\* status) or "success"
check_tools(rustc, wasm_pack) ==
    IF rustc # "success"
    THEN Err(MorpheusError_CompilationError(
                 <<"rustc not found. Please install Rust: https://rustup.rs/">>))
    ELSE IF wasm_pack # "success"
         THEN Err(MorpheusError_CompilationError(
                 <<"wasm-pack not found. Install with: cargo install wasm-pack">>))
         ELSE Ok(<<>>)

\* SubprocessCompiler::create_project, given what
\* SystemTime::now().duration_since(UNIX_EPOCH) is and which file-system
\* call fails ("ok" if none): the unwrap of the duration panics on Err
create_project(source, since_epoch, fs) ==
    IF ~since_epoch.ok
    THEN [panic |-> TRUE, ret |-> <<>>]
    ELSE LET project_dir == <<"component-", since_epoch.val>>
             failed(what) ==
                 Err(MorpheusError_CompilationError(<<what, "io error">>))
         IN [panic |-> FALSE,
             ret |-> CASE fs = "create_dir_all" ->
                              failed("Failed to create project dir: ")
                       [] fs = "create_dir" ->
                              failed("Failed to create src dir: ")
                       [] fs = "write_source" ->
                              failed("Failed to write source: ")
                       [] fs = "write_cargo_toml" ->
                              failed("Failed to write Cargo.toml: ")
                       [] OTHER -> Ok(project_dir)]

\* the patterns make_user_friendly looks for
Patterns ==
    [mismatched_types |->
         <<"m", "i", "s", "m", "a", "t", "c", "h", "e", "d", " ", "t", "y",
           "p", "e", "s">>,
     cannot_find |->
         <<"c", "a", "n", "n", "o", "t", " ", "f", "i", "n", "d">>,
     expected |->
         <<"e", "x", "p", "e", "c", "t", "e", "d">>,
     found |->
         <<"f", "o", "u", "n", "d">>,
     unresolved_import |->
         <<"u", "n", "r", "e", "s", "o", "l", "v", "e", "d", " ", "i", "m",
           "p", "o", "r", "t">>,
     unused |->
         <<"u", "n", "u", "s", "e", "d">>,
     missing_lifetime |->
         <<"m", "i", "s", "s", "i", "n", "g", " ", "l", "i", "f", "e", "t",
           "i", "m", "e">>,
     borrowed_value |->
         <<"b", "o", "r", "r", "o", "w", "e", "d", " ", "v", "a", "l", "u",
           "e">>,
     does_not_live |->
         <<"d", "o", "e", "s", " ", "n", "o", "t", " ", "l", "i", "v", "e",
           " ", "l", "o", "n", "g", " ", "e", "n", "o", "u", "g", "h">>,
     trait |->
         <<"t", "r", "a", "i", "t">>,
     not_implemented |->
         <<"n", "o", "t", " ", "i", "m", "p", "l", "e", "m", "e", "n", "t",
           "e", "d">>]

\* SubprocessCompiler::make_user_friendly
make_user_friendly(message) ==
    IF str_contains(message, Patterns.mismatched_types)
    THEN message \o <<"\n\n(hint) a value of one type is used where a different type is expected">>
    ELSE IF str_contains(message, Patterns.cannot_find)
    THEN message \o <<"\n\n(hint) something is referenced that does not exist or was not imported">>
    ELSE IF str_contains(message, Patterns.expected)
            /\ str_contains(message, Patterns.found)
    THEN message \o <<"\n\n(hint) the types do not match">>
    ELSE IF str_contains(message, Patterns.unresolved_import)
    THEN message \o <<"\n\n(hint) the import does not exist">>
    ELSE IF str_contains(message, Patterns.unused)
    THEN message \o <<"\n\n(hint) defined but never used">>
    ELSE IF str_contains(message, Patterns.missing_lifetime)
    THEN message \o <<"\n\n(hint) references need a lifetime">>
    ELSE IF str_contains(message, Patterns.borrowed_value)
            \/ str_contains(message, Patterns.does_not_live)
    THEN message \o <<"\n\n(hint) a reference no longer exists">>
    ELSE IF str_contains(message, Patterns.trait)
            /\ str_contains(message, Patterns.not_implemented)
    THEN message \o <<"\n\n(hint) the type needs to implement a trait">>
    ELSE message

\* SubprocessCompiler::enrich_error
enrich_error(error, help_text) ==
    LET helped == IF help_text # <<>>
                  THEN [error EXCEPT !.message = @ \o <<"\n\n">> \o help_text]
                  ELSE error
    IN IF is_some(helped.line) /\ is_some(helped.column)
       THEN [helped EXCEPT !.message =
                <<"At line ">> \o usize_to_string(helped.line[1])
                    \o <<", column ">> \o usize_to_string(helped.column[1])
                    \o <<":\n">> \o @]
       ELSE helped

\* the message parse_errors takes from an error line; the slice of the
\* error code panics when the first "]:" is before the first "["
error_line_message(line) ==
    LET bracket_start == str_find(line, <<"[">>)
        bracket_end == str_find(line, <<"]", ":">>)
    IN IF is_some(bracket_start) /\ is_some(bracket_end)
       THEN LET error_code ==
                    str_slice(line, bracket_start[1] + 1, bracket_end[1])
                error_message ==
                    str_slice(line, bracket_end[1] + 2, Len(line))
            IN IF error_code.panic \/ error_message.panic
               THEN [panic |-> TRUE, val |-> <<>>]
               ELSE [panic |-> FALSE,
                     val |-> error_code.val \o <<":", " ">>
                                 \o str_trim(error_message.val)]
       ELSE [panic |-> FALSE, val |-> line]

\* one turn of the loop of parse_errors over stderr.lines(); pushed is
\* the state with the pending error pushed if there is one, and help_text
\* is cleared only then
parse_line(st, line) ==
    LET pushed ==
            IF is_some(st.current_error)
            THEN [st EXCEPT !.errors =
                                Append(@, enrich_error(st.current_error[1],
                                                       st.help_text)),
                            !.current_error = None,
                            !.help_text = <<>>]
            ELSE st
    IN
    IF starts_with(str_trim(line), <<"-", "-", ">">>)
    THEN LET location == str_split(line, <<"-", "-", ">">>)[2]
             parts == str_split(str_trim(location), <<":">>)
         IN IF Len(parts) >= 3 /\ is_some(st.current_error)
            THEN [st EXCEPT !.current_error =
                     Some([st.current_error[1] EXCEPT
                              !.file = Some(parts[1]),
                              !.line = parse_usize(parts[2]),
                              !.column = parse_usize(parts[3])])]
            ELSE st
    ELSE IF str_contains(line, <<"e", "r", "r", "o", "r", "[">>)
            \/ str_contains(line, <<"e", "r", "r", "o", "r", ":">>)
    THEN LET message == error_line_message(line)
         IN IF message.panic
            THEN [pushed EXCEPT !.panic = TRUE]
            ELSE [pushed EXCEPT !.current_error =
                     Some([message |-> make_user_friendly(message.val),
                           file |-> None, line |-> None, column |-> None,
                           severity |-> "Error"])]
    ELSE IF str_contains(line, <<"w", "a", "r", "n", "i", "n", "g", ":">>)
    THEN [pushed EXCEPT !.current_error =
             Some([message |-> make_user_friendly(line),
                   file |-> None, line |-> None, column |-> None,
                   severity |-> "Warning"])]
    ELSE IF starts_with(str_trim(line), <<"h", "e", "l", "p", ":">>)
            \/ starts_with(str_trim(line), <<"n", "o", "t", "e", ":">>)
    THEN [st EXCEPT !.help_text =
             IF @ # <<>>
             THEN @ \o <<"\n">> \o str_trim(line)
             ELSE str_trim(line)]
    ELSE st

\* SubprocessCompiler::parse_errors
parse_errors(stderr) ==
    LET RECURSIVE parse_lines(_, _)
        parse_lines(st, lines) ==
            IF Len(lines) = 0 \/ st.panic
            THEN st
            ELSE parse_lines(parse_line(st, Head(lines)), Tail(lines))
        looped == parse_lines([errors |-> <<>>, current_error |-> None,
                               help_text |-> <<>>, panic |-> FALSE], stderr)
        errors == IF is_some(looped.current_error)
                  THEN Append(looped.errors,
                              enrich_error(looped.current_error[1],
                                           looped.help_text))
                  ELSE looped.errors
    IN IF looped.panic
       THEN [panic |-> TRUE, val |-> <<>>]
       ELSE [panic |-> FALSE,
             val |-> IF errors = <<>>
                     THEN <<[message |->
                                <<"The Rust compiler encountered an issue:\n\n">>
                                    \o join(stderr, <<"\n">>)
                                    \o <<"\n\n(hint) a syntax error or type mismatch">>,
                             file |-> None, line |-> None, column |-> None,
                             severity |-> "Error"]>>
                     ELSE errors]

\* compile, from the return of wasm-pack to the read of the artifact: the
\* Result of running it, then the status check with the parsing of stderr.
\* Ok(()) stands for going on to the read.
check_build(output) ==
    IF ~output.ok
    THEN [panic |-> FALSE,
          ret |-> Err(MorpheusError_CompilationError(
                          <<"Failed to run wasm-pack: ", "io error">>))]
    ELSE IF ~output.val.success
    THEN LET errors == parse_errors(output.val.stderr)
         IN IF errors.panic
            THEN [panic |-> TRUE, ret |-> <<>>]
            ELSE [panic |-> FALSE,
                  ret |-> Err(MorpheusError_CompilationError(
                              <<"Compilation failed:\n">>
                                  \o join([i \in 1..Len(errors.val) |->
                                              errors.val[i].message],
                                          <<"\n">>)))]
    ELSE [panic |-> FALSE, ret |-> Ok(<<>>)]

-----------------------------------------------------------------------------
(* One caller of SubprocessCompiler::compile, which passes the bytes of an *)
(* Ok result on to WasmComponent::load.  The environment decides what the  *)
(* tools, the clock, the file system and the build answer.                 *)

MaxCompiles == 2

\* lines a failing build may write to stderr: those of the tests of
\* parse_errors, a warning, a line of the source shown in a diagnostic
\* with "]:" before the first "[", and the closing line of wasm-pack
StderrLines ==
    [error_code |->
         <<"e", "r", "r", "o", "r", "[", "E", "0", "3", "0", "8", "]", ":",
           " ", "m", "i", "s", "m", "a", "t", "c", "h", "e", "d", " ", "t",
           "y", "p", "e", "s">>,
     location |->
         <<" ", " ", "-", "-", ">", " ", "s", "r", "c", "/", "l", "i", "b",
           ".", "r", "s", ":", "5", ":", "9">>,
     error_plain |->
         <<"e", "r", "r", "o", "r", ":", " ", "e", "x", "p", "e", "c", "t",
           "e", "d", " ", "i", "3", "2", ",", " ", "f", "o", "u", "n", "d",
           " ", "u", "8">>,
     warning |->
         <<"w", "a", "r", "n", "i", "n", "g", ":", " ", "u", "n", "u", "s",
           "e", "d", " ", "v", "a", "r", "i", "a", "b", "l", "e">>,
     help |->
         <<"h", "e", "l", "p", ":", " ", "a", "d", "d", " ", "a", " ", "s",
           "e", "m", "i", "c", "o", "l", "o", "n">>,
     source_echo |->
         <<"5", " ", "|", " ", "m", "]", ":", " ", "e", "r", "r", "o", "r",
           "[", "0", "]">>,
     wasm_pack |->
         <<"E", "r", "r", "o", "r", ":", " ", "C", "o", "m", "p", "i", "l",
           "i", "n", "g", " ", "y", "o", "u", "r", " ", "c", "r", "a", "t",
           "e", " ", "t", "o", " ", "W", "e", "b", "A", "s", "s", "e", "m",
           "b", "l", "y", " ", "f", "a", "i", "l", "e", "d">>]

\* what running wasm-pack may give: the spawn fails, the build exits with a
\* failure status after writing some lines to stderr, or it exits with
\* success; either exit may leave an artifact in pkg/ or none
BuildOutputs ==
    LET artifacts == {None, Some(WasmDemo), Some(<<1, 2, 3, 4>>)}
        stderrs ==
            {<<StderrLines.error_code, StderrLines.location>>,
             <<StderrLines.error_plain, StderrLines.help>>,
             <<StderrLines.warning, StderrLines.error_code,
               StderrLines.location, StderrLines.help>>,
             <<StderrLines.wasm_pack>>,
             <<>>,
             <<StderrLines.error_code, StderrLines.location,
               StderrLines.source_echo>>}
    IN {Err("io error")}
           \cup {Ok([success |-> FALSE, stderr |-> e, artifact |-> a]) :
                    e \in stderrs, a \in artifacts}
           \cup {Ok([success |-> TRUE, stderr |-> <<>>, artifact |-> a]) :
                    a \in artifacts}

sc_frame == <<versions, gen_vars, last_rollback, last_change, vs, vcalls,
              component, clog, registry, ret>>

\* compiler.compile(source), up to the first await: Self::check_tools()?
CompileCall ==
    /\ build.stage = "idle"
    /\ build.compiles < MaxCompiles
    /\ \E source \in {<<"hello_world">>, <<"bad_code">>},
          rustc \in {"spawn_error", "failure", "success"},
          wasm_pack \in {"spawn_error", "failure", "success"} :
           LET tools == check_tools(rustc, wasm_pack)
               called == [NoBuild EXCEPT !.source = source,
                                         !.compiles = build.compiles + 1,
                                         !.delivered = build.delivered]
           IN build' = IF tools.ok
                       THEN [called EXCEPT !.stage = "create_project",
                                           !.checked = TRUE]
                       ELSE [called EXCEPT !.stage = "returned",
                                           !.result = Some(tools)]
    /\ UNCHANGED sc_frame

\* let project_dir = self.create_project(source).await?;
CreateProject ==
    /\ build.stage = "create_project"
    /\ \E since_epoch \in Clocks,
          fs \in {"ok", "create_dir_all", "create_dir", "write_source",
                  "write_cargo_toml"} :
           LET created == create_project(build.source, since_epoch, fs)
           IN build' = IF created.panic
                       THEN [build EXCEPT !.stage = "panicked"]
                       ELSE IF created.ret.ok
                       THEN [build EXCEPT !.stage = "wasm_pack",
                                          !.project = Some(created.ret.val)]
                       ELSE [build EXCEPT !.stage = "returned",
                                          !.result = Some(created.ret)]
    /\ UNCHANGED sc_frame

\* the return of wasm-pack build, up to the read of the artifact
BuildReturns ==
    /\ build.stage = "wasm_pack"
    /\ \E output \in BuildOutputs :
           LET checked == check_build(output)
               ran == [build EXCEPT !.output = Some(output)]
           IN build' = IF checked.panic
                       THEN [ran EXCEPT !.stage = "panicked"]
                       ELSE IF checked.ret.ok
                       THEN [ran EXCEPT !.stage = "read"]
                       ELSE [ran EXCEPT !.stage = "returned",
                                        !.result = Some(checked.ret)]
    /\ UNCHANGED sc_frame

\* fs::read(&wasm_path), the clean-up whose result is dropped, and the
\* return; artifact is the file pkg/morpheus_component_bg.wasm if the build
\* left one, and read_fails says whether fs::read fails though it is there
ReadArtifact ==
    /\ build.stage = "read"
    /\ \E read_fails \in BOOLEAN :
           LET artifact == build.output[1].val.artifact
               bytes == IF read_fails \/ artifact = None
                        THEN Err(MorpheusError_CompilationError(
                                     <<"Failed to read compiled WASM: ",
                                       "io error">>))
                        ELSE Ok(artifact[1])
           IN build' = [build EXCEPT !.stage = "returned",
                                     !.read = bytes.ok,
                                     !.result = Some(bytes)]
    /\ UNCHANGED sc_frame

\* the caller's match on the result: the bytes of Ok go on to load, an Err
\* is reported
CallerTakes ==
    /\ build.stage = "returned"
    /\ build' = [build EXCEPT
                    !.stage = "idle",
                    !.delivered = IF build.result[1].ok
                                  THEN Some(build.result[1].val)
                                  ELSE @]
    /\ UNCHANGED sc_frame

NextSC ==
    \/ CompileCall
    \/ CreateProject
    \/ BuildReturns
    \/ ReadArtifact
    \/ CallerTakes

SpecSC == InitWC /\ [][NextSC]_vars

-----------------------------------------------------------------------------
(* Claims about the VersionHistory methods, checked under SpecVH *)

Entries == versions.versions

\* the call just made was rollback_to with an id inside / outside the entries
RolledBackValid ==
    ret.op = "rollback_to" /\ ret.version_id < Len(ret.pre.versions)

RolledBackInvalid ==
    ret.op = "rollback_to" /\ ret.version_id >= Len(ret.pre.versions)

\* C3: rollback_to(id) with id < number of entries sets the current index to
\* id, replaces the cached current_state by entries[id].state_snapshot (also
\* when that is None), returns entries[id], and get_current().id = id after.
C3_RollbackToValid ==
    RolledBackValid =>
        LET target == ret.pre.versions[ret.version_id + 1]
        IN /\ versions.current_index = ret.version_id
           /\ versions.current_state = target.state_snapshot
           /\ ret.result = Some(target)
           /\ is_some(get_current(versions))
           /\ get_current(versions)[1].id = ret.version_id

\* a rollback that replaced a Some cached state by the None snapshot
C3_Witness ==
    /\ RolledBackValid
    /\ is_some(ret.pre.current_state)
    /\ versions.current_state = None
    /\ ret.pre.current_index # ret.version_id

\* C4: rollback_to(id) with id >= number of entries (any id on an empty
\* history included) returns None and leaves the entries, the current index,
\* get_current() and the cached current_state unchanged.
C4_RollbackToInvalid ==
    RolledBackInvalid =>
        /\ ret.result = None
        /\ versions.versions = ret.pre.versions
        /\ versions.current_index = ret.pre.current_index
        /\ versions.current_state = ret.pre.current_state
        /\ get_current(versions) = get_current(ret.pre)

\* rollback_to(len) on a history with entries and a cached state
C4_Witness ==
    /\ RolledBackInvalid
    /\ ret.version_id = Len(ret.pre.versions)
    /\ Len(ret.pre.versions) >= 2
    /\ is_some(versions.current_state)

\* C5: add_version appends exactly one entry whose id is the entry count
\* before the call and whose state_snapshot is the cached current_state at
\* the call, sets the current index to that id, returns it, and leaves the
\* cached current_state unchanged.
C5_AddVersion ==
    ret.op = "add_version" =>
        LET n == Len(ret.pre.versions)
        IN /\ Len(Entries) = n + 1
           /\ SubSeq(Entries, 1, n) = ret.pre.versions
           /\ Entries[n + 1].id = n
           /\ Entries[n + 1].state_snapshot = ret.pre.current_state
           /\ versions.current_index = n
           /\ ret.result = n
           /\ versions.current_state = ret.pre.current_state

\* an add_version with a cached state, made while an older entry was current
C5_Witness ==
    /\ ret.op = "add_version"
    /\ is_some(ret.pre.current_state)
    /\ Len(ret.pre.versions) >= 2
    /\ ret.pre.current_index = 0

\* one entry list extends the other without changing what was there
IsPrefix(old, new) ==
    /\ Len(old) <= Len(new)
    /\ SubSeq(new, 1, Len(old)) = old

\* C6: the history is append-only: every step keeps every entry at its
\* position with all fields unchanged, the count never decreases, and
\* entries[i].id = i for every i.
C6_AppendOnly ==
    /\ [](\A i \in 1..Len(Entries) : Entries[i].id = i - 1)
    /\ [][IsPrefix(versions.versions, versions'.versions)]_vars

\* three entries, the last added after a rollback to the first
C6_Witness ==
    /\ ret.op = "add_version"
    /\ Len(Entries) = 3
    /\ is_some(ret.since_rollback)
    /\ ret.since_rollback[1].id = 0

\* C7: get_current() is None exactly when there is no entry; with at least
\* one entry, current_index < number of entries and get_current() is
\* entries[current_index].
C7_CurrentValid ==
    /\ (get_current(versions) = None) <=> (Len(Entries) = 0)
    /\ Len(Entries) > 0 =>
          /\ versions.current_index < Len(Entries)
          /\ get_current(versions) = Some(Entries[versions.current_index + 1])

\* an older entry is current while later ones exist
C7_Witness ==
    /\ Len(Entries) >= 2
    /\ versions.current_index < Len(Entries) - 1
    /\ ret.op = "get_current"
    /\ ret.result = Some(Entries[versions.current_index + 1])

\* C8: after a successful rollback_to(j) with no update_state since, the
\* next add_version stores entries[j].state_snapshot in the new entry, gives
\* it the entry count from before the rollback as id (nothing after j was
\* dropped) and makes it current.
C8_AddAfterRollback ==
    (ret.op = "add_version" /\ is_some(ret.since_rollback)) =>
        LET j == ret.since_rollback[1].id
            before == ret.since_rollback[1].len
            n == Len(Entries)
        IN /\ Entries[n].state_snapshot = Entries[j + 1].state_snapshot
           /\ n = before + 1
           /\ Entries[n].id = before
           /\ ret.result = before
           /\ versions.current_index = n - 1

\* the rolled-back-to snapshot differs from the one of the latest entry,
\* and entries after j exist
C8_Witness ==
    /\ ret.op = "add_version"
    /\ is_some(ret.since_rollback)
    /\ Len(Entries) = 3
    /\ ret.since_rollback[1].id = 0
    /\ Entries[1].state_snapshot # Entries[2].state_snapshot
    /\ Entries[3].state_snapshot = Entries[1].state_snapshot

\* C9: rollback_to addresses entries absolutely: in every reachable state
\* and for every j below the entry count, whatever the current index,
\* rollback_to(j) succeeds and makes entry j current.
C9_AbsoluteAddressing ==
    /\ \A j \in 0..(Len(Entries) - 1) :
          LET r == rollback_to(versions, j)
          IN /\ r.ret = Some(Entries[j + 1])
             /\ r.self.current_index = j
             /\ r.self.versions = Entries
    /\ RolledBackValid =>
          /\ is_some(ret.result)
          /\ versions.current_index = ret.version_id

\* a redo: a rollback to an entry after the current one, after an earlier
\* rollback
C9_Witness ==
    /\ RolledBackValid
    /\ ret.version_id > ret.pre.current_index
    /\ is_some(ret.result)
    /\ ret.result[1].id = ret.version_id
    /\ versions.current_index = ret.version_id

\* C10: update_state(value) sets the cached current_state to Some(value) and
\* changes neither the entry list (stored snapshots included) nor the
\* current index.
C10_UpdateStateFrame ==
    ret.op = "update_state" =>
        /\ versions.current_state = Some(ret.state)
        /\ versions.versions = ret.pre.versions
        /\ versions.current_index = ret.pre.current_index

\* an update_state to a value the current entry's snapshot does not hold
C10_Witness ==
    /\ ret.op = "update_state"
    /\ Len(Entries) >= 1
    /\ Entries[versions.current_index + 1].state_snapshot # Some(ret.state)
    /\ ret.pre.current_state # Some(ret.state)

\* C11: get_history returns one summary per entry, oldest first, with ids
\* 0, 1, ..., n-1; when the history is not empty exactly one summary has
\* is_current set, the one whose id is the current index; the call leaves
\* the history as it was.
C11_GetHistory ==
    ret.op = "get_history" =>
        LET n == Len(Entries)
            summaries == ret.result
        IN /\ Len(summaries) = n
           /\ \A i \in 1..n :
                  /\ summaries[i].id = i - 1
                  /\ summaries[i].name = Entries[i].name
                  /\ summaries[i].description = Entries[i].description
                  /\ summaries[i].ai_generated = Entries[i].ai_generated
           /\ n > 0 =>
                  {i \in 1..n : summaries[i].is_current}
                      = {versions.current_index + 1}
           /\ versions = ret.pre

\* the history of three entries is listed after a rollback to the middle one
C11_Witness ==
    /\ ret.op = "get_history"
    /\ Len(Entries) = 3
    /\ versions.current_index = 1
    /\ Len(ret.result) = 3
    /\ ret.result[2].is_current
    /\ ~ret.result[3].is_current
    /\ Entries[1].name # Entries[2].name

-----------------------------------------------------------------------------
(* Claims about the safety-demo server, checked under SpecSD *)

\* C12: hot-reload preserves the live state: when the last change to the
\* history was update_state(s), the next load_version answers with
\* restored_state s and the version it creates carries s as its snapshot.
C12_HotReloadKeepsState ==
    (ret.op = "load_version" /\ ret.before.op = "update_state") =>
        /\ ret.response.success
        /\ ret.response.restored_state = Some(ret.before.state)
        /\ ret.response.version_id = Len(Entries) - 1
        /\ Entries[Len(Entries)].state_snapshot = Some(ret.before.state)
        /\ versions.current_state = Some(ret.before.state)

\* a second version is loaded right after the client reported 42
C12_Witness ==
    /\ ret.op = "load_version"
    /\ ret.before.op = "update_state"
    /\ ret.before.state = 42
    /\ Len(Entries) = 2
    /\ Entries[1].state_snapshot # Some(42)
    /\ ret.response.restored_state = Some(42)

\* C13: rollback does not lose the live state: when a version was loaded
\* while the live state was S, a rollback to the version that was current
\* before that load answers with restored_state S and leaves the cached
\* current_state at S.
C13_RollbackKeepsLiveState ==
    (/\ ret.op = "rollback"
     /\ ret.before.op = "add_version"
     /\ ret.before.had_prev
     /\ is_some(ret.before.live)
     /\ ret.request.version_id = ret.before.prev_index) =>
        /\ ret.response.success
        /\ ret.response.restored_state = ret.before.live
        /\ versions.current_state = ret.before.live

-----------------------------------------------------------------------------
(* Claims about VersionedState, checked under SpecVS *)

\* C14: update(new) pushes a snapshot of the value and version current
\* before the call onto the newest end of the history, sets the current
\* value to new and increments the version by exactly 1.
C14_Update ==
    ret.op = "update" =>
        LET n == Len(vs.history)
        IN /\ n >= 1
           /\ vs.history[n].state = ret.pre.current
           /\ vs.history[n].version = ret.pre.version
           /\ \A i \in 1..(n - 1) :
                  vs.history[i] = ret.pre.history[Len(ret.pre.history) - (n - 1) + i]
           /\ vs.current = ret.new_state
           /\ vs.version = ret.pre.version + 1

\* the second update of a value created as 42
C14_Witness ==
    /\ ret.op = "update"
    /\ ret.pre.current = 43
    /\ ret.pre.version = 1
    /\ ret.new_state = 44
    /\ Len(vs.history) = 2
    /\ vs.history[1].state = 42

\* C15: the history never holds more than MAX_HISTORY (50) snapshots, and
\* an update on a full history evicts exactly the oldest snapshot and
\* keeps the one it pushed.
C15_HistoryBounded ==
    /\ Len(vs.history) <= MAX_HISTORY
    /\ (ret.op = "update" /\ Len(ret.pre.history) = MAX_HISTORY) =>
           vs.history = Append(Tail(ret.pre.history), snapshot(ret.pre))

\* an update on a full history whose oldest snapshot it evicts
C15_Witness ==
    /\ ret.op = "update"
    /\ Len(ret.pre.history) = MAX_HISTORY
    /\ Len(vs.history) = MAX_HISTORY
    /\ vs.history[1] = ret.pre.history[2]
    /\ vs.history[1] # ret.pre.history[1]
    /\ vs.history[MAX_HISTORY].version = ret.pre.version

\* C16: after k consecutive updates of a value created by new(v) the
\* version is k; for k <= 50 the history holds k snapshots; for k > 50 it
\* holds 50 and the oldest is the one pushed by update k - 49: the value
\* and the version k - 50 current just before that update (the client
\* counts up from v, so that value is v + k - 50).
C16_AfterKUpdates ==
    vcalls.other_calls = 0 =>
        LET k == vcalls.updates
        IN /\ vs.version = k
           /\ k <= MAX_HISTORY => Len(vs.history) = k
           /\ k > MAX_HISTORY =>
                  /\ Len(vs.history) = MAX_HISTORY
                  /\ vs.history[1].version = k - MAX_HISTORY
                  /\ vs.history[1].state = vcalls.initial + k - MAX_HISTORY

\* 52 updates of a value created as 42
C16_Witness ==
    /\ vcalls.other_calls = 0
    /\ vcalls.updates = 52
    /\ vcalls.initial = 42
    /\ Len(vs.history) = 50
    /\ vs.history[1].version = 2
    /\ vs.history[1].state = 44

\* C17: rollback on a non-empty history removes the newest snapshot, sets
\* the value and version to that snapshot's and returns true; a rollback
\* directly after an update that evicted nothing gives back the value,
\* version and history of before the update.
C17_Rollback ==
    (ret.op = "rollback" /\ Len(ret.pre.history) > 0) =>
        LET n == Len(ret.pre.history)
        IN /\ ret.result = TRUE
           /\ vs.history = SubSeq(ret.pre.history, 1, n - 1)
           /\ vs.current = ret.pre.history[n].state
           /\ vs.version = ret.pre.history[n].version
           /\ (/\ is_some(ret.updated_from)
               /\ Len(ret.updated_from[1].history) < MAX_HISTORY) =>
                  vs = ret.updated_from[1]

\* the third update is rolled back
C17_Witness ==
    /\ ret.op = "rollback"
    /\ ret.result = TRUE
    /\ is_some(ret.updated_from)
    /\ ret.pre.version = 3
    /\ vs.version = 2
    /\ vs.current = 44
    /\ Len(vs.history) = 2
    /\ vs = ret.updated_from[1]

\* C18: rollback on an empty history returns false and leaves the value,
\* the version and the history as they were.
C18_RollbackEmpty ==
    (ret.op = "rollback" /\ Len(ret.pre.history) = 0) =>
        /\ ret.result = FALSE
        /\ vs = ret.pre

\* a rollback after two updates and a clear_history
C18_Witness ==
    /\ ret.op = "rollback"
    /\ ret.pre.history = <<>>
    /\ ret.pre.version = 2
    /\ ret.pre.current = 44
    /\ ret.result = FALSE
    /\ vcalls.updates = 2

\* C19: restore(snapshot) sets the value and version to the snapshot's,
\* whatever the snapshot, and leaves the history as it was.
C19_Restore ==
    ret.op = "restore" =>
        /\ vs.current = ret.snapshot.state
        /\ vs.version = ret.snapshot.version
        /\ vs.history = ret.pre.history

\* a snapshot from elsewhere is restored over three updates
C19_Witness ==
    /\ ret.op = "restore"
    /\ ret.snapshot \in ForeignSnapshots
    /\ ret.pre.version = 3
    /\ Len(vs.history) = 3
    /\ vs.version = 7
    /\ vs.current = 99

\* C20: clear_history empties the history and leaves the value and the
\* version as they were.
C20_ClearHistory ==
    ret.op = "clear_history" =>
        /\ vs.history = <<>>
        /\ vs.current = ret.pre.current
        /\ vs.version = ret.pre.version

\* a history of two snapshots is cleared
C20_Witness ==
    /\ ret.op = "clear_history"
    /\ Len(ret.pre.history) = 2
    /\ vs.version = 2
    /\ vs.current = 2
    /\ vs.history = <<>>

\* C21, as claimed: over update, rollback, restore and clear_history the
\* version number never decreases.
C21_VersionNeverDecreases ==
    ret.op \in {"update", "rollback", "restore", "clear_history"} =>
        vs.version >= ret.pre.version

\* C21, amended: over update and clear_history the version number never
\* decreases (rollback and restore set it to the version of the snapshot
\* popped or supplied, which may be lower).
C21_VersionNeverDecreasesByUpdate ==
    ret.op \in {"update", "clear_history"} =>
        vs.version >= ret.pre.version

\* an update made after the history was cleared at version 2
C21_Witness ==
    /\ ret.op = "update"
    /\ vcalls.other_calls = 1
    /\ ret.pre.history = <<>>
    /\ ret.pre.version = 2
    /\ vs.version = 3

-----------------------------------------------------------------------------
(* Claims about undo runs of VersionedState, checked under SpecUD *)

\* C34: after k > MAX_HISTORY updates of a fresh state, each of the first
\* MAX_HISTORY rollback calls returns true and steps one version back, and
\* every later one returns false and leaves the state at version
\* k - MAX_HISTORY with the value that was current after update
\* k - MAX_HISTORY, which is not the initial value.
C34_UndoDepth ==
    (ret.op = "rollback" /\ vcalls.updates > MAX_HISTORY) =>
        LET k == vcalls.updates
            j == vcalls.other_calls
        IN IF j <= MAX_HISTORY
           THEN /\ ret.result = TRUE
                /\ vs.version = k - j
                /\ vs.current = vcalls.initial + (k - j)
           ELSE /\ ret.result = FALSE
                /\ vs.version = k - MAX_HISTORY
                /\ vs.current = vcalls.initial + (k - MAX_HISTORY)
                /\ vs.current # vcalls.initial
                /\ vs = ret.pre

\* the 51st rollback after 52 updates
C34_Witness ==
    /\ ret.op = "rollback"
    /\ vcalls.updates = 52
    /\ vcalls.other_calls = 51
    /\ ret.result = FALSE
    /\ vs.version = 2

-----------------------------------------------------------------------------
(* Claims about restore-free use of VersionedState, checked under SpecVU *)

\* C35: without restore, the snapshot versions in the history are
\* consecutive integers in increasing order from oldest to newest, and when
\* the history is not empty the newest snapshot's version is the current
\* version minus 1.
C35_ConsecutiveHistory ==
    LET n == Len(vs.history)
    IN /\ \A i \in 1..(n - 1) :
              vs.history[i + 1].version = vs.history[i].version + 1
       /\ n > 0 => vs.history[n].version = vs.version - 1

\* an update that evicts the oldest snapshot of a full history
C35_Witness ==
    /\ ret.op = "update"
    /\ Len(ret.pre.history) = MAX_HISTORY
    /\ Len(vs.history) = MAX_HISTORY
    /\ vs.history[1].version > 1
    /\ vs.version = MaxUpdates

-----------------------------------------------------------------------------
(* Claims about WasmComponent, checked under SpecWC *)

\* C22: after n reload calls on a component, with any bytes, bytes equal
\* to the stored ones included, its version is the one load gave plus n
\* (one more with each call), its bytes are the ones last supplied, and its
\* id and permissions are the ones it had when load returned it.
C22_Reload ==
    ret.op = "reload" =>
        LET c == component[1]
            l == clog.loaded[1]
        IN /\ ret.result.ok
           /\ c.metadata.version = ret.pre.metadata.version + 1
           /\ c.metadata.version = l.version + clog.reloads
           /\ c.wasm_bytes = ret.wasm_bytes
           /\ WasmComponent_id(c) = l.id
           /\ c.permissions = l.permissions

\* the third reload in a row, with the bytes the component already holds,
\* of a component loaded from other bytes with a grant that is not the
\* default
C22_Witness ==
    /\ ret.op = "reload"
    /\ clog.reloads = 3
    /\ ret.wasm_bytes = ret.pre.wasm_bytes
    /\ clog.loaded[1].wasm_bytes # ret.wasm_bytes
    /\ component[1].permissions # Permissions_default
    /\ component[1].metadata.version = 4

\* C23: load succeeds for every byte sequence, the empty one included, and
\* returns a component of version 1 that holds the bytes and the
\* permissions it was given.
C23_Load ==
    ret.op = "load" =>
        /\ ret.result.ok
        /\ ret.result.val.metadata.version = 1
        /\ ret.result.val.wasm_bytes = ret.wasm_bytes
        /\ ret.result.val.permissions = ret.permissions

\* load of no bytes with a grant that is not the default
C23_Witness ==
    /\ ret.op = "load"
    /\ ret.wasm_bytes = <<>>
    /\ ret.permissions.storage.tag = "Full"
    /\ component = Some(ret.result.val)

\* C24: two loads of the same bytes return the same id, whatever the
\* grants.
C24_IdFromBytesOnly ==
    (/\ ret.op = "load"
     /\ ret.result.ok
     /\ is_some(ret.prev)
     /\ ret.prev[1].wasm_bytes = ret.wasm_bytes)
        => WasmComponent_id(ret.result.val) = ret.prev[1].id

\* two loads in a row of the same bytes with different grants
C24_Witness ==
    /\ ret.op = "load"
    /\ is_some(ret.prev)
    /\ ret.prev[1].wasm_bytes = ret.wasm_bytes
    /\ ret.wasm_bytes = <<1, 2, 3, 4>>
    /\ ret.prev[1].permissions # ret.permissions

\* C25: two loads of different bytes return different ids.
C25_DistinctIds ==
    (/\ ret.op = "load"
     /\ ret.result.ok
     /\ is_some(ret.prev)
     /\ ret.prev[1].wasm_bytes # ret.wasm_bytes)
        => WasmComponent_id(ret.result.val) # ret.prev[1].id

\* (h * 31 + byte) mod 2^64 on the eight base-256 digits of h, the least
\* significant first
fold_step(h, byte) ==
    LET t[i \in 1..8] ==
            h[i] * 31 + (IF i = 1 THEN byte ELSE t[i - 1] \div 256)
    IN [i \in 1..8 |-> t[i] % 256]

\* at most the first 64 bytes
first_64(bytes) ==
    SubSeq(bytes, 1, IF Len(bytes) < 64 THEN Len(bytes) ELSE 64)

\* the fold of fold_step from 0 over at most the first 64 bytes
fold_first_64(bytes) ==
    LET taken == first_64(bytes)
        f[h \in [1..8 -> 0..255], i \in 1..65] ==
            IF i > Len(taken)
            THEN h
            ELSE f[fold_step(h, taken[i]), i + 1]
    IN f[[d \in 1..8 |-> 0], 1]

\* eight base-256 digits as four 16-bit limbs
limbs_of(d) == [k \in 1..4 |-> d[2 * k - 1] + 256 * d[2 * k]]

\* C38: the id of a loaded component is the fold of
\* h := (h * 31 + byte) mod 2^64 from 0 over at most the first 64 bytes of
\* the artifact: the empty artifact gets 0, and two artifacts that agree on
\* their first 64 bytes get the same id.
C38_IdIsFold ==
    (ret.op = "load" /\ ret.result.ok) =>
        LET cid == WasmComponent_id(ret.result.val)
        IN /\ cid = limbs_of(fold_first_64(ret.wasm_bytes))
           /\ ret.wasm_bytes = <<>> => cid = <<0, 0, 0, 0>>
           /\ (/\ is_some(ret.prev)
               /\ first_64(ret.prev[1].wasm_bytes) = first_64(ret.wasm_bytes))
                  => cid = ret.prev[1].id

\* 100 bytes loaded after their first 64
C38_Witness ==
    /\ ret.op = "load"
    /\ ret.result.ok
    /\ is_some(ret.prev)
    /\ Len(ret.wasm_bytes) = 100
    /\ Len(ret.prev[1].wasm_bytes) = 64
    /\ first_64(ret.wasm_bytes) = ret.prev[1].wasm_bytes
    /\ WasmComponent_id(ret.result.val) = ret.prev[1].id
    /\ WasmComponent_id(ret.result.val) # <<0, 0, 0, 0>>

-----------------------------------------------------------------------------
(* Claims about ComponentRegistry, checked under SpecCR *)

\* the ids with a stored instance
RegisteredIds == DOMAIN registry.components

\* C26: register on an id that is already registered leaves the registry
\* with the new instance and the new metadata under that id, with as many
\* entries as before and with the entries of the other ids as they were.
C26_RegisterReplaces ==
    (ret.op = "register" /\ ret.id \in DOMAIN ret.pre.components) =>
        /\ get(registry, ret.id) = Some(ret.component)
        /\ metadata_of(registry, ret.id) = Some(ret.metadata)
        /\ RegisteredIds = DOMAIN ret.pre.components
        /\ DOMAIN registry.metadata = DOMAIN ret.pre.metadata
        /\ \A k \in RegisteredIds \ {ret.id} :
               /\ registry.components[k] = ret.pre.components[k]
               /\ registry.metadata[k] = ret.pre.metadata[k]

\* an id registered with one instance and metadata is registered again
\* with another instance and other metadata, next to a second id
C26_Witness ==
    /\ ret.op = "register"
    /\ ret.id \in DOMAIN ret.pre.components
    /\ ret.pre.components[ret.id] # ret.component
    /\ ret.pre.metadata[ret.id] # ret.metadata
    /\ Cardinality(RegisteredIds) = 2

\* C27: remove of a registered id returns its instance and leaves get and
\* metadata of that id None; get, get_mut, metadata and remove of an id
\* that is not registered return None and leave the registry as it was.
C27_RemoveAndMisses ==
    /\ (ret.op = "remove" /\ ret.id \in DOMAIN ret.pre.components) =>
           /\ ret.result = Some(ret.pre.components[ret.id])
           /\ get(registry, ret.id) = None
           /\ metadata_of(registry, ret.id) = None
    /\ (/\ ret.op \in {"get", "get_mut", "metadata", "remove"}
        /\ ret.id \notin DOMAIN ret.pre.components
        /\ ret.id \notin DOMAIN ret.pre.metadata) =>
           /\ ret.result = None
           /\ registry = ret.pre

\* the only registered id is removed
C27_Witness ==
    /\ ret.op = "remove"
    /\ DOMAIN ret.pre.components = {ret.id}
    /\ is_some(ret.result)
    /\ registry = ComponentRegistry_new

\* C36: the ids with a stored instance are the ids with stored metadata,
\* and list() yields exactly one metadata item per registered id: as many
\* items as there are ids, each id's metadata among them, and each item as
\* often as there are ids that carry it.
C36_MapsAgree ==
    /\ DOMAIN registry.components = DOMAIN registry.metadata
    /\ ret.op = "list" =>
           LET ids == DOMAIN ret.pre.components
           IN /\ BagCardinality(ret.result) = Cardinality(ids)
              /\ \A k \in ids : BagIn(ret.pre.metadata[k], ret.result)
              /\ \A m \in BagToSet(ret.result) :
                     CopiesIn(m, ret.result) =
                         Cardinality({k \in ids : ret.pre.metadata[k] = m})

\* list() on a registry that holds the same metadata under two ids
C36_Witness ==
    /\ ret.op = "list"
    /\ Cardinality(DOMAIN registry.components) = 2
    /\ \E m \in BagToSet(ret.result) : CopiesIn(m, ret.result) = 2

\* C37: a reload through get_mut changes only that instance's bytes and its
\* own version counter, which advances by one; every other instance and the
\* registry's metadata map are left as they were.  The metadata stored for
\* an id changes only when register supplies it, so after a reload
\* registry.metadata(id) still has what register was given.
C37_ReloadLeavesRegistryMetadata ==
    /\ [](ret.op = "reload" =>
             LET old == ret.pre.components[ret.id]
             IN /\ registry.metadata = ret.pre.metadata
                /\ DOMAIN registry.components = DOMAIN ret.pre.components
                /\ \A k \in DOMAIN registry.components \ {ret.id} :
                       registry.components[k] = ret.pre.components[k]
                /\ registry.components[ret.id] =
                       [old EXCEPT !.wasm_bytes = ret.wasm_bytes,
                                   !.metadata.version = old.metadata.version + 1]
                /\ metadata_of(registry, ret.id) =
                       metadata_of(ret.pre, ret.id))
    /\ [][\A k \in DOMAIN registry'.metadata :
              (k \notin DOMAIN registry.metadata
                  \/ registry'.metadata[k] # registry.metadata[k]) =>
                  /\ ret'.op = "register"
                  /\ ret'.id = k
                  /\ registry'.metadata[k] = ret'.metadata]_vars

\* after a reload the registry still reports version 1 while the instance
\* itself is at version 2
C37_Witness ==
    /\ ret.op = "reload"
    /\ metadata_of(registry, ret.id) # None
    /\ metadata_of(registry, ret.id)[1].version = 1
    /\ get(registry, ret.id)[1].metadata.version = 2
    /\ get(registry, ret.id)[1].wasm_bytes # ret.pre.components[ret.id].wasm_bytes

\* C28: every registered instance is stored under its own id(), and no two
\* registered instances have the same id().
C28_OneInstancePerIdentity ==
    /\ \A k \in RegisteredIds :
           WasmComponent_id(registry.components[k]) = k
    /\ \A k1, k2 \in RegisteredIds :
           WasmComponent_id(registry.components[k1])
               = WasmComponent_id(registry.components[k2]) => k1 = k2

\* C29: every registered component whose metadata has ai_generated set
\* holds the default grant.
C29_GeneratedRunsRestricted ==
    \A k \in RegisteredIds \cap DOMAIN registry.metadata :
        registry.metadata[k].ai_generated =>
            registry.components[k].permissions = Permissions_default

-----------------------------------------------------------------------------
(* Claims about the retry loop of generate_component, checked under Spec *)

\* C30: a request makes at most MAX_ITERATIONS calls of the AI and of the
\* compiler; once MAX_ITERATIONS compiles have failed, the handler, unless
\* the client has gone away, ends by returning success = false with
\* iterations = MAX_ITERATIONS; once a compile has succeeded, as the i-th
\* of the request, no further call of the AI or the compiler is made and
\* the handler, unless the client has gone away, ends by returning
\* success = true with iterations = i.
C30_RetryLoopBounded ==
    \A r \in Req :
        /\ calls[r].ai <= MAX_ITERATIONS
        /\ calls[r].compile <= MAX_ITERATIONS
        /\ (calls[r].failed = MAX_ITERATIONS /\ pc[r] \in Terminal \ {"aborted"}) =>
               /\ is_some(resp[r])
               /\ ~resp[r][1].success
               /\ resp[r][1].iterations = MAX_ITERATIONS
        /\ calls[r].succeeded =>
               /\ calls[r].ai = calls[r].compile
               /\ calls[r].compile = calls[r].failed + 1
               /\ pc[r] \in {"save_version"} \cup Terminal
        /\ (calls[r].succeeded /\ pc[r] \in Terminal \ {"aborted"}) =>
               /\ is_some(resp[r])
               /\ resp[r][1].success
               /\ resp[r][1].iterations = calls[r].compile

-----------------------------------------------------------------------------
(* Claims about SubprocessCompiler::compile, checked under SpecSC *)

\* C39: compile returns Ok(bytes) only when the tool check passed, the
\* project was created, the build exited with success and the artifact was
\* read, the bytes being that artifact; every other call returns a
\* CompilationError, so none ends without a result; and the only bytes the
\* caller passes on are those of an Ok result.
C39_OkOnlyFromSuccessfulBuild ==
    /\ [](build.stage = "returned" =>
             LET result == build.result[1]
             IN IF result.ok
                THEN /\ build.checked
                     /\ is_some(build.project)
                     /\ is_some(build.output)
                     /\ build.output[1].ok
                     /\ build.output[1].val.success
                     /\ build.read
                     /\ build.output[1].val.artifact = Some(result.val)
                ELSE result.err.kind = "CompilationError")
    /\ [](build.stage # "panicked")
    /\ [][build'.delivered # build.delivered =>
              /\ build.stage = "returned"
              /\ build.result[1].ok
              /\ build'.delivered = Some(build.result[1].val)]_vars

-----------------------------------------------------------------------------
(* Claims about concurrent requests, checked under Spec *)

\* C31: whatever requests run in between, the restored_state of a success
\* response of generate_component is the state_snapshot of the entry that
\* request created, and its version_id is that entry's id: in the step that
\* returns the response the entry is appended with that id and snapshot,
\* and the entry stays as it is from then on.
C31_ResponseMatchesEntry ==
    /\ [](\A r \in Req :
            (pc[r] = "done" /\ resp[r][1].success) =>
                LET vid == resp[r][1].version_id[1]
                IN /\ vid < Len(versions.versions)
                   /\ versions.versions[vid + 1].id = vid
                   /\ versions.versions[vid + 1].state_snapshot
                          = resp[r][1].restored_state)
    /\ [][\A r \in Req :
            (pc[r] = "save_version" /\ pc'[r] = "done") =>
                /\ resp'[r][1].version_id = Some(Len(versions.versions))
                /\ resp'[r][1].restored_state = versions.current_state]_vars

\* a request has returned the second version with the state 42 that
\* /api/state cached after the first version was saved, and the state has
\* since been rolled back to the first version's empty snapshot
C31_Witness ==
    \E r \in Req :
        /\ pc[r] = "done"
        /\ resp[r][1].success
        /\ resp[r][1].version_id = Some(1)
        /\ resp[r][1].restored_state = Some(42)
        /\ versions.versions[1].state_snapshot = None
        /\ versions.current_state = None

\* C32: the conversation a request sends to the AI is the system prompt,
\* the request's own prompt and, for each of its own failed compiles, the
\* code it got and the compile error, and nothing else.
C32_OwnConversation ==
    \A r \in Req :
        pc[r] = "claude_send" =>
            /\ Len(messages[r]) = 2 + 2 * calls[r].failed
            /\ messages[r][1] = Message("user", create_system_prompt)
            /\ messages[r][2] =
                   Message("user", <<"Create a WASM component: ",
                                     req[r][1].prompt>>)
            /\ \A i \in 1..calls[r].failed :
                   /\ messages[r][2 * i + 1].role = "assistant"
                   /\ messages[r][2 * i + 1].content \in Codes
                   /\ messages[r][2 * i + 2].role = "user"
                   /\ \E e \in CompileErrors :
                          messages[r][2 * i + 2].content =
                              <<"That code failed to compile with this error:",
                                e, "Fix it.">>

\* C33: while the AI call or the compile of a request is in flight,
\* /api/state and /api/rollback can be served, and they leave the request
\* where it is; the version a request creates snapshots the cached state as
\* it is in the step that saves it, whatever it was when the request
\* arrived.
C33_BuildHoldsNoLock ==
    /\ [](\A r \in Req :
            pc[r] \in {"claude_send", "compile"} =>
                (ENABLED HandleUpdateState) /\ (ENABLED HandleRollback))
    /\ [][\A r \in Req :
            (pc[r] \in {"claude_send", "compile"} /\ versions' # versions
             /\ versions'.versions = versions.versions) =>
                /\ pc'[r] = pc[r]
                /\ iteration'[r] = iteration[r]]_vars
    /\ [][\A r \in Req :
            (pc[r] = "save_version" /\ pc'[r] = "done") =>
                /\ Len(versions'.versions) = Len(versions.versions) + 1
                /\ versions'.versions[Len(versions'.versions)].state_snapshot
                       = versions.current_state]_vars

\* a request that arrived when no state was cached has created the first
\* version, whose snapshot is the 42 that /api/state cached meanwhile
C33_Witness ==
    \E r \in Req :
        /\ pc[r] = "done"
        /\ resp[r][1].success
        /\ calls[r].started_with = None
        /\ resp[r][1].version_id = Some(0)
        /\ versions.versions[1].state_snapshot = Some(42)

-----------------------------------------------------------------------------
(* Claims about generate_component, checked under Spec *)

\* request r takes a step on a failure path: the API key is missing, the AI
\* call failed, the compile failed, or the failed attempt is fed back (and
\* the retry budget may be exhausted)
FailureStep(r) ==
    \/ pc[r] = "idle" /\ pc'[r] # "idle" /\ api_key = ""
    \/ pc[r] = "claude_send" /\ pc'[r] \notin {"claude_send", "compile", "aborted"}
    \/ pc[r] = "compile" /\ pc'[r] \notin {"compile", "save_version", "aborted"}
    \/ pc[r] = "feed_error" /\ pc'[r] \notin {"feed_error", "aborted"}

IsFailureResponse(response) ==
    /\ response.success = FALSE
    /\ response.version_id = None
    /\ response.wasm_base64 = None
    /\ response.restored_state = None
    /\ is_some(response.error)

C2_AddOnlyAfterCompileOk ==
    /\ [](\A r \in Req :
            pc[r] = "save_version" => (is_some(compiled[r]) /\ compiled[r][1].ok))
    /\ [][\A r \in Req :
            /\ pc[r] \in Terminal => pc'[r] = pc[r]
            /\ pc'[r] # pc[r] =>
                  IF pc'[r] = "done" /\ resp'[r][1].success
                  THEN /\ pc[r] = "save_version"
                       /\ Len(versions'.versions) = Len(versions.versions) + 1
                       /\ IsPrefix(versions.versions, versions'.versions)
                       /\ resp'[r][1].version_id = Some(Len(versions.versions))
                  ELSE versions' = versions]_vars
    /\ [][versions'.versions # versions.versions =>
            \E r \in Req : pc[r] = "save_version" /\ pc'[r] = "done"]_vars

\* one request's build is in flight, another was aborted, and the history
\* holds nothing
C2_Witness ==
    \E r, q \in Req :
        /\ pc[r] = "compile"
        /\ iteration[r] = 2
        /\ pc[q] = "aborted"
        /\ is_some(rust_code[r])
        /\ Len(versions.versions) = 0

====
